---- MODULE Spec2Model ----
(***************************************************************************)
(* EvoMind: the agent controller's decision loop (agent/controller.py),    *)
(* the agent state (agent/state.py), the synthesis pipeline with its       *)
(* static validation gate (codegen/generator.py, codegen/validators.py),   *)
(* the result validator (utils/validators.py), the reflexion memory        *)
(* (agent/planner.py) and the tool registry (registry/tool_registry.py).   *)
(*                                                                         *)
(* handle_request is modelled step by step: pc is the position of the      *)
(* innermost handle_request frame, depth the number of nested frames       *)
(* (the handler retries by calling itself).                                *)
(*                                                                         *)
(* Strings are tuples of one-character strings, so that lower(), strip(),  *)
(* replace() and the substring test of search() are computed.              *)
(* Scores and confidences are in tenths (0.5 is 5); success rates are in   *)
(* units of 10^-MaxRegOps.                                                 *)
(*                                                                         *)
(* Specifications: Spec, the controller with the registry calls its owner  *)
(* makes between requests; RegistrySpec, the registry used on its own by   *)
(* one caller; ConcurrentSpec, one registry entry used by threads;         *)
(* ValidatorSpec, the static validator and its results; CodegenSpec, the   *)
(* synthesis pipeline and the planner with a remote model that may fail;   *)
(* SandboxSpec, the sandbox executor with its process; StorageSpec, the    *)
(* storage directory through saves, stops and a reload; ReflexionSpec,     *)
(* should_reflect on feedback lists; ContextSpec, the first request of a   *)
(* controller whose episodic memory was filled beforehand; BreakerSpec     *)
(* and RetrySpec, the circuit breaker and the retry wrapper of             *)
(* utils/retry.py; HandlerSpec, two handler threads of the request         *)
(* surface (api.py) on the one controller.                                 *)
(***************************************************************************)
EXTENDS Integers, Sequences, FiniteSets, TLC

VARIABLES
    \* AgentState (agent/state.py)
    current_state, request, plan, selected_tool, execution_result,
    feedback, history, retry_count,
    \* ReflexionMemory.episodes, ContextManager.episodic
    episodes, episodic,
    \* ToolRegistry.tools / artifacts, in insertion order
    tools,
    \* the registry's storage directory, the time utcnow() reads, and the
    \* last registry call with what it returned
    storage, clock, ret,
    \* the registry calls that run in threads: each thread's position and
    \* locals, and the number of calls started, by operation
    threads, calls,
    \* the running handle_request frames
    pc, depth, arg, tool, result, response,
    \* history variables of the verification
    call_no, chain_start, chain_feedback, last_exec, resp_depth,
    \* a ValidationResult object and the validate call that made it
    validation_result, validated,
    \* the create_tool call and the plan call in progress
    synthesis, planning,
    \* the execute call in progress, its working area and its process
    sandbox,
    \* the storage directory with the two files of each slot, the _save_tool
    \* call in progress, and the _load_registry run of a restarted registry
    disk, saving, loader,
    \* the last call of ReflexionMemory.should_reflect
    reflection,
    \* a CircuitBreaker (utils/retry.py) with the call made through it
    breaker,
    \* a function wrapped by with_retry (utils/retry.py) and its call
    retrying,
    \* the frame of the handler thread that is not running (api.py)
    parked

vars == <<current_state, request, plan, selected_tool, execution_result,
          feedback, history, retry_count, episodes, episodic, tools,
          storage, clock, ret, threads, calls, pc, depth, arg, tool, result, response,
          call_no, chain_start, chain_feedback, last_exec, resp_depth,
          validation_result, validated,
          synthesis, planning,
          sandbox,
          disk, saving, loader,
          reflection,
          breaker,
          retrying,
          parked>>

agentVars == <<current_state, request, plan, selected_tool, execution_result,
               feedback, history, retry_count>>

\* the registry beside its index: storage, time and the record of the
\* last call
regVars == <<storage, clock, ret, threads, calls>>

\* the callers of a shared registry
concVars == <<threads, calls>>

\* the controller, its memories and its frames
ctlVars == <<current_state, request, plan, selected_tool, execution_result,
             feedback, history, retry_count, episodes, episodic,
             pc, depth, arg, tool, result, response,
             call_no, chain_start, chain_feedback, last_exec, resp_depth>>

\* the controller with its registry
systemVars == <<tools, regVars, ctlVars>>

validatorVars == <<validation_result, validated>>
codegenVars == <<synthesis, planning>>
sandboxVars == <<sandbox>>
storageVars == <<disk, saving, loader>>
pipelineVars == <<validatorVars, codegenVars, sandboxVars, storageVars>>

\* the helpers that are called on their own (the reflexion test, the
\* circuit breaker, the retry wrapper) and the second handler thread
utilVars == <<reflection, breaker, retrying, parked>>
reflexionRest == <<systemVars, pipelineVars, breaker, retrying,
                  parked>>
breakerRest == <<systemVars, pipelineVars, reflection, retrying,
                  parked>>
retryRest == <<systemVars, pipelineVars, reflection, breaker,
                  parked>>

\* what a call of one part leaves alone
validatorRest == <<systemVars, codegenVars, sandboxVars, storageVars,
                   utilVars>>
codegenRest == <<systemVars, validatorVars, sandboxVars, storageVars,
                 utilVars>>
sandboxRest == <<systemVars, validatorVars, codegenVars, storageVars,
                 utilVars>>
storageRest == <<systemVars, validatorVars, codegenVars, sandboxVars,
                 utilVars>>

\* the parts that are also run on their own, outside a request
unitVars == <<validation_result, validated,
             synthesis, planning,
             sandbox,
             disk, saving, loader,
             reflection,
             breaker,
             retrying,
             parked>>

(***************************************************************************)
(* Bounds                                                                  *)
(***************************************************************************)
\* top-level handle_request calls made on one controller
MaxCalls == 2

\* writes (register, update_stats, deprecate) made on one registry
MaxRegOps == 4

\* registry calls started by the threads that share one registry
MaxThreadCalls == 3

\* _save_tool calls made on one storage directory, and files of it that
\* are lost or damaged while no registry runs
MaxSaves == 2
MaxDamage == 1

\* the episodes added to a ContextManager before the first request
MaxEpisodes == 6

\* a circuit breaker: the failures that open it, the time it stays open,
\* the calls made through it and the time the calls are spread over
failure_threshold == 2
recovery_timeout == 2
MaxBreakerCalls == 5
MaxTime == 4

\* the largest max_attempts of a retry policy, and the calls made of one
\* wrapped function
MaxAttempts == 3
MaxRetryCalls == 2

\* the longest feedback list given to should_reflect
MaxFeedback == 3

\* add_finding calls made on one ValidationResult
MaxFindings == 3

\* constructs in one code text handed to validate
MaxFeatures == 2

(***************************************************************************)
(* Program constants                                                       *)
(***************************************************************************)
max_retries == 3
\* RetryPolicy: initial_delay, max_delay and exponential_base, in seconds
initial_delay == 1
max_delay == 60
exponential_base == 2
confidence_threshold == 7
search_limit == 10
history_window == 5
\* the smoothing factor of update_stats, in tenths
alpha == 1

(***************************************************************************)
(* Strings                                                                 *)
(***************************************************************************)
\* a task that is not a string (None, a number): task.lower() raises
NonString == <<"<non-string>">>

Lower(c) == IF c = "A" THEN "a" ELSE IF c = "B" THEN "b" ELSE c

LowerStr(s) == [i \in 1..Len(s) |-> Lower(s[i])]

RECURSIVE LStrip(_)
LStrip(s) == IF s # <<>> /\ Head(s) = " " THEN LStrip(Tail(s)) ELSE s

RECURSIVE RStrip(_)
RStrip(s) ==
    IF s # <<>> /\ s[Len(s)] = " " THEN RStrip(SubSeq(s, 1, Len(s) - 1)) ELSE s

Strip(s) == RStrip(LStrip(s))

\* str.replace(' ', '_')
ReplaceSpaces(s) == [i \in 1..Len(s) |-> IF s[i] = " " THEN "_" ELSE s[i]]

\* a substring test that finds the empty string nowhere
IsSubstringNonEmpty(q, s) ==
    /\ q # <<>>
    /\ Len(q) <= Len(s)
    /\ \E i \in 0..(Len(s) - Len(q)) : SubSeq(s, i + 1, i + Len(q)) = q

\* Python's  q in s
IsSubstring(q, s) ==
    /\ Len(q) <= Len(s)
    /\ \E i \in 0..(Len(s) - Len(q)) : SubSeq(s, i + 1, i + Len(q)) = q

(***************************************************************************)
(* StateType                                                               *)
(***************************************************************************)
IDLE == "idle"
PLAN == "plan"
SELECT_TOOL == "select_tool"
DESIGN_TOOL == "design_tool"
VALIDATE == "validate"
EXECUTE == "execute"
VERIFY == "verify"
RESPOND == "respond"
LEARN == "learn"
ERROR == "error"

StateType == {IDLE, PLAN, SELECT_TOOL, DESIGN_TOOL, VALIDATE, EXECUTE,
              VERIFY, RESPOND, LEARN, ERROR}

\* Python's None, for the fields that hold a string or a tuple
None == <<"<none>">>

(***************************************************************************)
(* Static validation (codegen/validators.py).  A code text is the set of   *)
(* the constructs it contains; the order of the findings of one stage is   *)
(* the order of this model, the order of the stages is the code's.         *)
(***************************************************************************)
Features == {"syntax_error", "import_os", "import_os_path", "from_subprocess",
             "from_relative", "import_socket", "import_numpy",
             "import_json", "call_eval", "call_open", "attr_get", "long",
             "while_true"}

\* the import statement behind a construct: the node ast.walk meets and
\* the dotted name it carries (alias.name of an Import, module of an
\* ImportFrom, which is None for "from . import os")
ImportNodes ==
    [import_os |-> [node |-> "Import", module |-> <<"o", "s">>],
     import_os_path |-> [node |-> "Import", module |-> <<"o", "s", ".", "p", "a", "t", "h">>],
     from_subprocess |-> [node |-> "ImportFrom", module |-> <<"s", "u", "b", "p", "r", "o", "c", "e", "s", "s">>],
     from_relative |-> [node |-> "ImportFrom", module |-> None],
     import_socket |-> [node |-> "Import", module |-> <<"s", "o", "c", "k", "e", "t">>],
     import_numpy |-> [node |-> "Import", module |-> <<"n", "u", "m", "p", "y">>],
     import_json |-> [node |-> "Import", module |-> <<"j", "s", "o", "n">>]]

\* the text produced by CodeTemplates.generate_function
TemplateCode == {}
\* the empty text "" and an absent text (None): both are falsy
EmptyCode == {"<empty>"}
NoCode == {"<none>"}

\* what a call of the remote model gives when it fails (it raises)
LLMFails == {"<raises>"}
PlanFails == [strategy |-> "<raises>", intent |-> None, confidence |-> 0]

IsFalsy(code) == code = EmptyCode \/ code = NoCode

always_dangerous ==
    {<<"o", "s">>,
     <<"s", "u", "b", "p", "r", "o", "c", "e", "s", "s">>,
     <<"c", "t", "y", "p", "e", "s">>,
     <<"m", "u", "l", "t", "i", "p", "r", "o", "c", "e", "s", "s", "i", "n", "g">>,
     <<"t", "h", "r", "e", "a", "d", "i", "n", "g">>,
     <<"_", "_", "i", "m", "p", "o", "r", "t", "_", "_">>,
     <<"e", "v", "a", "l">>,
     <<"e", "x", "e", "c">>,
     <<"c", "o", "m", "p", "i", "l", "e">>}
network_imports ==
    {<<"s", "o", "c", "k", "e", "t">>,
     <<"h", "t", "t", "p">>,
     <<"u", "r", "l", "l", "i", "b">>,
     <<"r", "e", "q", "u", "e", "s", "t", "s">>,
     <<"h", "t", "t", "p", "x">>}
allowed_imports ==
    {<<"j", "s", "o", "n">>,
     <<"r", "e">>,
     <<"m", "a", "t", "h">>,
     <<"d", "a", "t", "e", "t", "i", "m", "e">>,
     <<"t", "y", "p", "i", "n", "g">>,
     <<"d", "a", "t", "a", "c", "l", "a", "s", "s", "e", "s">>,
     <<"c", "o", "l", "l", "e", "c", "t", "i", "o", "n", "s">>,
     <<"i", "t", "e", "r", "t", "o", "o", "l", "s">>,
     <<"f", "u", "n", "c", "t", "o", "o", "l", "s">>,
     <<"s", "t", "r", "i", "n", "g">>,
     <<"s", "t", "a", "t", "i", "s", "t", "i", "c", "s">>,
     <<"d", "e", "c", "i", "m", "a", "l">>,
     <<"f", "r", "a", "c", "t", "i", "o", "n", "s">>}

dangerous_imports(allow_network) ==
    IF allow_network THEN always_dangerous
    ELSE always_dangerous \cup network_imports

allowed_imports_of(allow_network) ==
    IF allow_network THEN allowed_imports \cup network_imports
    ELSE allowed_imports

NewValidationResult == [passed |-> TRUE, findings |-> <<>>, blockers |-> <<>>]

\* a result that counts the critical findings alone as blockers
add_finding_critical_only(r, severity, category) ==
    LET finding == [severity |-> severity, category |-> category] IN
    IF severity = "critical"
    THEN [passed |-> FALSE,
          findings |-> Append(r.findings, finding),
          blockers |-> Append(r.blockers, finding)]
    ELSE [r EXCEPT !.findings = Append(r.findings, finding)]

add_finding(r, severity, category) ==
    LET finding == [severity |-> severity, category |-> category] IN
    IF severity \in {"critical", "high"}
    THEN [passed |-> FALSE,
          findings |-> Append(r.findings, finding),
          blockers |-> Append(r.blockers, finding)]
    ELSE [r EXCEPT !.findings = Append(r.findings, finding)]

has_blockers(r) == Len(r.blockers) > 0

\* module.split(".")[0]
RECURSIVE base_module(_)
base_module(module) ==
    IF module = <<>> \/ Head(module) = "." THEN <<>>
    ELSE <<Head(module)>> \o base_module(Tail(module))

\* a check of the dotted name as it is written, without the split
check_import_unsplit(r, module, allow_network) ==
    IF module \in dangerous_imports(allow_network)
    THEN add_finding(r, "critical", "policy")
    ELSE IF module \notin allowed_imports_of(allow_network)
         THEN add_finding(r, "medium", "policy")
         ELSE r

check_import(r, module, allow_network) ==
    IF base_module(module) \in dangerous_imports(allow_network)
    THEN add_finding(r, "critical", "policy")
    ELSE IF base_module(module) \notin allowed_imports_of(allow_network)
         THEN add_finding(r, "medium", "policy")
         ELSE r

ImportOrder == <<"import_os", "import_os_path", "from_subprocess",
                 "from_relative", "import_socket", "import_numpy",
                 "import_json">>

\* the Import and ImportFrom branches of the walk: an ImportFrom without
\* a module is not checked
check_node(r, node, allow_network) ==
    IF node.node = "ImportFrom" /\ node.module = None THEN r
    ELSE check_import(r, node.module, allow_network)

RECURSIVE check_imports(_, _, _, _)
check_imports(r, code, i, allow_network) ==
    IF i > Len(ImportOrder) THEN r
    ELSE check_imports(
            IF ImportOrder[i] \in code
            THEN check_node(r, ImportNodes[ImportOrder[i]], allow_network)
            ELSE r,
            code, i + 1, allow_network)

validate_policy(r, code, allow_network) ==
    LET r1 == check_imports(r, code, 1, allow_network) IN
    IF "call_eval" \in code THEN add_finding(r1, "critical", "policy") ELSE r1

validate_security(r, code) ==
    LET r1 == IF "call_open" \in code
              THEN add_finding(r, "high", "security") ELSE r IN
    IF "attr_get" \in code THEN add_finding(r1, "high", "security") ELSE r1

validate_safety(r, code) ==
    LET r1 == IF "long" \in code
              THEN add_finding(r, "medium", "safety") ELSE r IN
    IF "while_true" \in code THEN add_finding(r1, "high", "safety") ELSE r1

validate_with(code, allow_network) ==
    IF "syntax_error" \in code
    THEN add_finding(NewValidationResult, "critical", "syntax")
    ELSE validate_safety(
             validate_security(
                 validate_policy(NewValidationResult, code, allow_network),
                 code),
             code)

\* CodeGenerator.validator is StaticValidator(): allow_network = False
validate(code) == validate_with(code, FALSE)

(***************************************************************************)
(* Synthesis pipeline (codegen/generator.py)                               *)
(***************************************************************************)
NoTool == [status |-> "none", reason |-> "", tool_id |-> None,
           code |-> NoCode, findings |-> <<>>, origin |-> "none",
           score |-> 0]

FailTool(reason, findings) ==
    [NoTool EXCEPT !.status = "FAIL", !.reason = reason,
                   !.findings = findings, !.origin = "designed"]

run_smoke_tests(code) == TRUE

\* _generate_code without its try: the failure of the remote call is
\* raised to the caller
generate_code_unguarded(use_llm, llm) ==
    IF use_llm
    THEN [raised |-> llm = LLMFails, code |-> llm]
    ELSE [raised |-> FALSE, code |-> TemplateCode]

\* _generate_code: the text the remote model gives, the template when
\* there is no model or its call fails
generate_code(use_llm, llm) ==
    IF use_llm /\ llm # LLMFails
    THEN [raised |-> FALSE, code |-> llm]
    ELSE [raised |-> FALSE, code |-> TemplateCode]

\* _attempt_repair: the text the remote model gives, None when there is
\* no model or its call fails
attempt_repair(use_llm, llm) ==
    IF use_llm /\ llm # LLMFails
    THEN [raised |-> FALSE, code |-> llm]
    ELSE [raised |-> FALSE, code |-> NoCode]

\* create_tool without the second validation: the repaired text is
\* packaged as it comes back
create_tool_norevalidate(name, generated, repaired) ==
    IF IsFalsy(generated) THEN FailTool("generation_failed", <<>>)
    ELSE IF has_blockers(validate(generated)) /\ IsFalsy(repaired)
         THEN FailTool("validation_failed", validate(generated).blockers)
         ELSE [NoTool EXCEPT !.status = "READY", !.tool_id = name,
                  !.code = IF has_blockers(validate(generated))
                           THEN repaired ELSE generated,
                  !.origin = "designed"]

\* generated: what _generate_code returns; repaired: what _attempt_repair
\* returns when it is asked (NoCode when there is no LLM or the LLM fails)
create_tool(name, generated, repaired) ==
    IF IsFalsy(generated) THEN FailTool("generation_failed", <<>>)
    ELSE
      LET validation == validate(generated) IN
      LET code == IF has_blockers(validation) THEN repaired ELSE generated IN
      IF has_blockers(validation) /\ IsFalsy(code)
      THEN FailTool("validation_failed", validation.blockers)
      ELSE IF has_blockers(validation) /\ has_blockers(validate(code))
      THEN FailTool("validation_failed", validate(code).blockers)
      ELSE IF ~run_smoke_tests(code)
      THEN FailTool("tests_failed", <<>>)
      ELSE [NoTool EXCEPT !.status = "READY", !.tool_id = name,
                          !.code = code, !.origin = "designed"]

\* _synthesize_tool_spec: the name of the designed tool
synthesize_tool_name(intent) == <<"tool_">> \o ReplaceSpaces(intent)

(***************************************************************************)
(* Result validation (utils/validators.py)                                 *)
(***************************************************************************)
NoResult == [kind |-> "none", status |-> "", has_result |-> FALSE,
             has_error |-> FALSE, call |-> 0]

\* the truthiness of a result:  if not result
Truthy(r) == r.kind # "none"

default_criteria == [has_result |-> TRUE, no_errors |-> TRUE,
                     valid_schema |-> TRUE]

\* result.get("status") on a value that is not a mapping raises
validate_result_raises(r, criteria) ==
    /\ Truthy(r)
    /\ ~(criteria.has_result /\ ~r.has_result)
    /\ criteria.no_errors
    /\ r.kind # "dict"

\* a validator that looks at the status alone: neither the "result" field
\* nor the "error" field is tested
validate_result_status_only(r, criteria) ==
    IF ~Truthy(r) THEN FALSE
    ELSE IF criteria.no_errors /\ r.status = "error" THEN FALSE
    ELSE TRUE

validate_result(r, criteria) ==
    IF ~Truthy(r) THEN FALSE
    ELSE IF criteria.has_result /\ ~r.has_result THEN FALSE
    ELSE IF criteria.no_errors /\ (r.status = "error" \/ r.has_error)
    THEN FALSE
    ELSE TRUE

(***************************************************************************)
(* Reflexion memory and planners (agent/planner.py)                        *)
(***************************************************************************)
\* a test that looks for the category "error" alone
should_reflect_errors_only(fb) ==
    \E i \in 1..Len(fb) : fb[i] = "error"

should_reflect(fb) ==
    \E i \in 1..Len(fb) : fb[i] \in {"bad_result", "error"}

NoPlan == [strategy |-> "none", intent |-> None, confidence |-> 0]

\* a context that carries the whole episodic log
relevant_history_all(ep) == ep

\* ContextManager._get_relevant_history: episodic[-5:]
relevant_history(ep) ==
    IF Len(ep) > history_window
    THEN SubSeq(ep, Len(ep) - history_window + 1, Len(ep)) ELSE ep

react_plan(task, hist) ==
    [strategy |-> "react", intent |-> Strip(LowerStr(task)),
     confidence |-> IF Len(hist) > 0 THEN 8 ELSE 6]

\* ReActPlanner.plan: the plan of the remote model with its strategy set,
\* the rule-based plan when there is no model or its call fails
ReActPlanner_plan(use_llm, llm, task, hist) ==
    IF use_llm /\ llm # PlanFails
    THEN [raised |-> FALSE, plan |-> [llm EXCEPT !.strategy = "react"]]
    ELSE [raised |-> FALSE, plan |-> react_plan(task, hist)]

\* ToTPlanner: breadth 3, scores 0.5 + 0.1 i, the maximum is taken
tot_plan(task) ==
    [strategy |-> "tot", intent |-> Strip(LowerStr(task)), confidence |-> 7]

\* a controller that never escalates to the exploratory planner
make_plan_reactive(task, hist) == react_plan(task, hist)

\* AgentController._plan
make_plan(task, hist) ==
    IF react_plan(task, hist).confidence < confidence_threshold
    THEN tot_plan(task) ELSE react_plan(task, hist)

(***************************************************************************)
(* Tool registry (registry/tool_registry.py): the entries in insertion     *)
(* order (a dict keeps it), each with its metadata and its artifact code.  *)
(***************************************************************************)
Version == <<"0.1.0">>

tool_id_of(name, version) == name \o <<"_">> \o version

default_owner == <<"s", "y", "s", "t", "e", "m">>

\* deprecation_date = None
NoDate == 0

\* success_rate 1.0: rates are counted in units of 10^-MaxRegOps, which
\* holds the rate exactly after as many updates as the model makes
RateOne == 10 ^ MaxRegOps

\* ToolMetadata as register builds it: the fields register does not pass
\* (owner, dependencies, tests, cpu_limit, memory_limit_mb, ...) take the
\* defaults of the dataclass; owner stands for them
NewToolMetadata(name, version, description, tags, code) ==
    [id |-> tool_id_of(name, version), name |-> name, version |-> version,
     description |-> description, owner |-> default_owner, tags |-> tags,
     success_rate |-> RateOne, usage_count |-> 0,
     deprecated |-> FALSE, deprecation_date |-> NoDate, code |-> code]

IndexOf(tl, id) ==
    IF \E i \in 1..Len(tl) : tl[i].id = id
    THEN CHOOSE i \in 1..Len(tl) : tl[i].id = id ELSE 0

\* a register that adds an entry whether or not the id is known
register_appending(tl, name, version, description, tags, code) ==
    Append(tl, NewToolMetadata(name, version, description, tags, code))

\* register: self.tools[tool_id] = meta keeps the position of a known id
register(tl, name, version, description, tags, code) ==
    LET meta == NewToolMetadata(name, version, description, tags, code) IN
    IF IndexOf(tl, meta.id) = 0 THEN Append(tl, meta)
    ELSE [tl EXCEPT ![IndexOf(tl, meta.id)] = meta]

\* an average that adds the outcome's share without scaling the old rate
ema_unscaled(outcome, old) == ((alpha * RateOne * outcome) \div 10) + old

\* lines 197-203: alpha * outcome + (1 - alpha) * success_rate
ema(outcome, old) ==
    (alpha * RateOne * outcome + (10 - alpha) * old) \div 10

update_stats(tl, id, success) ==
    IF IndexOf(tl, id) = 0 THEN tl
    ELSE [tl EXCEPT ![IndexOf(tl, id)].usage_count = @ + 1,
                    ![IndexOf(tl, id)].success_rate =
                        ema(IF success THEN 1 ELSE 0, @)]

\* now: what datetime.utcnow() returns
deprecate(tl, id, now) ==
    IF IndexOf(tl, id) = 0 THEN tl
    ELSE [tl EXCEPT ![IndexOf(tl, id)].deprecated = TRUE,
                    ![IndexOf(tl, id)].deprecation_date = now]

\* the return value of deprecate
deprecate_returns(tl, id) == IndexOf(tl, id) # 0

\* get returns None for an unknown id
NoEntry == [NewToolMetadata(<<>>, <<>>, <<>>, <<>>, NoCode)
              EXCEPT !.id = None]

get(tl, id) == IF IndexOf(tl, id) = 0 THEN NoEntry ELSE tl[IndexOf(tl, id)]

list_all(tl, include_deprecated) ==
    SelectSeq(tl, LAMBDA meta : include_deprecated \/ ~meta.deprecated)

\* _save_tool: metadata.json and artifact.json in the directory of the id
save_tool(st, meta) == (meta.id :> meta) @@ st

RECURSIVE tag_score(_, _)
tag_score(q, tags) ==
    IF tags = <<>> THEN 0
    ELSE (IF IsSubstring(q, LowerStr(Head(tags))) THEN 2 ELSE 0)
         + tag_score(q, Tail(tags))

search_score(q, meta) ==
    (IF IsSubstring(q, LowerStr(meta.name)) THEN 5 ELSE 0)
    + (IF IsSubstring(q, LowerStr(meta.description)) THEN 3 ELSE 0)
    + tag_score(q, meta.tags)

candidate_of(q, meta) ==
    [NoTool EXCEPT !.tool_id = meta.id, !.code = meta.code,
                   !.origin = "registry", !.score = search_score(q, meta)]

\* a scan that does not skip the deprecated tools
search_scan_all(q, tl) ==
    LET found == SelectSeq(tl, LAMBDA meta : search_score(q, meta) > 0) IN
    [i \in 1..Len(found) |-> candidate_of(q, found[i])]

RECURSIVE search_scan(_, _)
search_scan(q, tl) ==
    IF tl = <<>> THEN <<>>
    ELSE IF ~Head(tl).deprecated /\ search_score(q, Head(tl)) > 0
         THEN <<candidate_of(q, Head(tl))>> \o search_scan(q, Tail(tl))
         ELSE search_scan(q, Tail(tl))

\* list.sort(key=score, reverse=True) is stable: an element goes after the
\* elements whose score is not smaller
RECURSIVE insert_by_score(_, _)
insert_by_score(sorted, c) ==
    IF sorted = <<>> THEN <<c>>
    ELSE IF Head(sorted).score >= c.score
         THEN <<Head(sorted)>> \o insert_by_score(Tail(sorted), c)
         ELSE <<c>> \o sorted

RECURSIVE sort_by_score(_, _)
sort_by_score(sorted, rest) ==
    IF rest = <<>> THEN sorted
    ELSE sort_by_score(insert_by_score(sorted, Head(rest)), Tail(rest))

search(query, tl, limit) ==
    LET results == sort_by_score(<<>>, search_scan(LowerStr(query), tl)) IN
    IF Len(results) > limit THEN SubSeq(results, 1, limit) ELSE results

(***************************************************************************)
(* Inputs                                                                  *)
(***************************************************************************)
\* the tasks of the requests: "A " (intent "a") and a non-string
Tasks == {<<"A", " ">>, NonString}

\* what the sandbox returns: a success result, an error result, a timeout
\* result, and a value that is not a mapping
SandboxResults ==
    {[kind |-> "dict", status |-> "success", has_result |-> TRUE,
      has_error |-> FALSE, call |-> 0],
     [kind |-> "dict", status |-> "error", has_result |-> FALSE,
      has_error |-> TRUE, call |-> 0],
     [kind |-> "dict", status |-> "timeout", has_result |-> FALSE,
      has_error |-> TRUE, call |-> 0],
     [kind |-> "list", status |-> "", has_result |-> TRUE,
      has_error |-> FALSE, call |-> 0]}

\* what code generation returns (LLM or template) and what repair returns
GeneratedCodes == {TemplateCode, {"import_os"}, EmptyCode}
RepairedCodes == {NoCode, {"import_numpy"}, {"call_open"}}

\* the metadata and artifact handed to register; owner stands for the keys
\* register does not read; Absent: the key is not set
Absent == <<"<absent>">>

NoMetadata == [name |-> <<>>, description |-> <<>>, tags |-> <<>>,
               owner |-> Absent, code |-> NoCode]

RegInputs ==
    {[name |-> <<"a", "b">>, description |-> <<"a">>,
      tags |-> << <<"a">>, <<"a", "b">> >>,
      owner |-> <<"x">>, code |-> {"import_os"}],
     [name |-> <<"b">>, description |-> <<"a">>, tags |-> << <<"b">> >>,
      owner |-> Absent, code |-> TemplateCode],
     [name |-> <<"b">>, description |-> <<"a">>, tags |-> << <<"b">> >>,
      owner |-> <<"x">>, code |-> {"call_open"}]}

\* the ids of the calls: the ids register gives the inputs, and an id no
\* tool has
UnknownId == <<"z">>

RegIds == {tool_id_of(md.name, Version) : md \in RegInputs} \cup {UnknownId}

Queries == {<<>>, <<"A">>, <<"b">>, <<"a", "b">>}

Limits == {1, search_limit}

RegNames == {<<"a">>}
RegDescriptions == {<<>>}
RegCodes == {{"import_os"}}

(***************************************************************************)
(* AgentState (agent/state.py)                                             *)
(***************************************************************************)
transition(to_state) ==
    /\ history' = Append(history, [from |-> current_state, to |-> to_state])
    /\ current_state' = to_state

add_feedback(category) ==
    /\ feedback' = Append(feedback, category)
    /\ chain_feedback' = Append(chain_feedback, category)

can_retry == retry_count < max_retries

increment_retry == retry_count' = retry_count + 1

\* a reset that also starts a new history
reset_clearing_history ==
    /\ current_state' = IDLE
    /\ request' = None
    /\ plan' = NoPlan
    /\ selected_tool' = None
    /\ execution_result' = NoResult
    /\ feedback' = <<>>
    /\ retry_count' = 0
    /\ history' = <<>>

reset ==
    /\ current_state' = IDLE
    /\ request' = None
    /\ plan' = NoPlan
    /\ selected_tool' = None
    /\ execution_result' = NoResult
    /\ feedback' = <<>>
    /\ retry_count' = 0
    /\ UNCHANGED history

(***************************************************************************)
(* Responses (agent/controller.py)                                         *)
(***************************************************************************)
NoResponse == [status |-> "none", feedback |-> <<>>,
               partial_result |-> NoResult, result |-> NoResult,
               tool_used |-> None, retries |-> 0, state_history |-> <<>>]

graceful_degrade(fb) ==
    [NoResponse EXCEPT !.status = "degraded", !.feedback = fb,
                       !.partial_result = execution_result]

\* _respond is called after transition(RESPOND): it reads the history
\* with that entry
respond(res) ==
    [NoResponse EXCEPT !.status = "success", !.result = res,
                       !.tool_used = selected_tool,
                       !.retries = retry_count,
                       !.state_history =
                           [i \in 1..Len(history') |-> history'[i].to]]

error_response == [NoResponse EXCEPT !.status = "error"]

\* the record of a registry call: the operation, its arguments (id, query,
\* limit, flag: success or include_deprecated, md: the metadata and
\* artifact handed to register) and what it returned (ok: deprecate's
\* bool, entry: get's tool, results: a list, id: register's tool id);
\* for register, entry keeps the entry the id had before the call
NoRet == [op |-> "none", id |-> None, query |-> <<>>, limit |-> 0,
          flag |-> FALSE, md |-> NoMetadata, ok |-> FALSE,
          entry |-> NoEntry, results |-> <<>>]

\* the threads that call the registry
Threads == {1, 2}

\* a thread outside a registry call.  In a call: pc, the position; flag,
\* the success argument; count and rate, the values read from the entry;
\* text, the serialized entry that is about to be written; detached and
\* obj: the ToolMetadata object the call holds is no longer the one in
\* self.tools (a register has replaced it), and its fields
IdleThread == [pc |-> "idle", flag |-> FALSE, count |-> 0, rate |-> 0,
               text |-> NoEntry, detached |-> FALSE, obj |-> NoEntry]

NoCalls == [register |-> 0, update_stats |-> 0, deprecate |-> 0]

\* the controller after construction
\* no create_tool call and no plan call has been made
NoSynthesis ==
    [pc |-> "idle", name |-> None, use_llm |-> FALSE, llm_code |-> NoCode,
     llm_repair |-> NoCode, code |-> NoCode,
     validation |-> NewValidationResult, validations |-> 0, repairs |-> 0,
     performed |-> {}, ret |-> NoTool]
NoPlanning ==
    [pc |-> "idle", use_llm |-> FALSE, llm |-> PlanFails, task |-> None,
     hist |-> <<>>, plan |-> NoPlan]

\* a file of a slot: absent, unreadable as JSON, or holding the record of
\* tool id in its revision rev
NoFile == [state |-> "missing", id |-> None, rev |-> 0]
CorruptFile == [state |-> "corrupt", id |-> None, rev |-> 0]
OkFile(id, rev) == [state |-> "ok", id |-> id, rev |-> rev]
NoSlot == [metadata |-> NoFile, artifact |-> NoFile]

\* the slots of the storage directory
SlotIds == RegIds \ {UnknownId}

\* an empty storage directory, no save in progress, no registry reloaded
EmptyDisk == [slot \in SlotIds |-> NoSlot]
NoSaving == [pc |-> "idle", id |-> None, old |-> NoSlot, new |-> NoSlot,
             saves |-> 0, damages |-> 0]
NoLoader == [pc |-> "down", remaining |-> {}, meta |-> NoFile,
             tools |-> <<>>, artifacts |-> <<>>]

\* no execute call has been made
NoExecution == [status |-> "none", error |-> "", result |-> "", stdout |-> ""]
NoSandbox ==
    [pc |-> "idle", area |-> "none", process |-> "none", returncode |-> 0,
     stdout |-> "", timed_out |-> FALSE, failures |-> {},
     result |-> NoExecution]

\* no ValidationResult has been made
NoValidated == [code |-> NoCode, allow_network |-> FALSE]

\* last_failure_time of a breaker that has not failed
NoTime == -1

\* CircuitBreaker.__init__, with the call in progress, the time and the
\* number of calls made: last is how the last call ended
NoBreaker ==
    [state |-> "closed", failure_count |-> 0, last_failure_time |-> NoTime,
     pc |-> "idle", now |-> 0, calls |-> 0, last |-> "none"]

\* no exception
NoException == [kind |-> "none", invocation |-> 0]

\* a function wrapped by with_retry that was not called yet: attempt is
\* the loop variable, invocations counts the calls of the function, delays
\* lists the sleeps, in quarters of a second
NoRetrying ==
    [pc |-> "idle", max_attempts |-> 0, attempt |-> 0, invocations |-> 0,
     delays |-> <<>>, last_exception |-> NoException, returned |-> 0,
     raised |-> NoException, calls |-> 0]

\* the handler threads of the request surface
Handlers == {1, 2}

\* the frame of a handler thread that is not running: its position in
\* handle_request, its locals and its history variables; at first the
\* thread 2, with no request
NoFrame ==
    [id |-> 2, pc |-> "idle", depth |-> 0, arg |-> None, tool |-> NoTool,
     result |-> NoResult, response |-> NoResponse, chain_start |-> 0,
     chain_feedback |-> <<>>, last_exec |-> NoResult, resp_depth |-> 0]

\* no should_reflect call made yet
NoReflection == [called |-> FALSE, feedback |-> <<>>, ret |-> FALSE]

UnitInit ==
    /\ validation_result = NewValidationResult
    /\ validated = NoValidated
    /\ synthesis = NoSynthesis
    /\ planning = NoPlanning
    /\ sandbox = NoSandbox
    /\ disk = EmptyDisk
    /\ saving = NoSaving
    /\ loader = NoLoader
    /\ reflection = NoReflection
    /\ breaker = NoBreaker
    /\ retrying = NoRetrying
    /\ parked = NoFrame

CtlInit ==
    /\ current_state = IDLE
    /\ request = None
    /\ plan = NoPlan
    /\ selected_tool = None
    /\ execution_result = NoResult
    /\ feedback = <<>>
    /\ history = <<>>
    /\ retry_count = 0
    /\ episodes = <<>>
    /\ episodic = <<>>
    /\ pc = "idle"
    /\ depth = 0
    /\ arg = None
    /\ tool = NoTool
    /\ result = NoResult
    /\ response = NoResponse
    /\ call_no = 0
    /\ chain_start = 0
    /\ chain_feedback = <<>>
    /\ last_exec = NoResult
    /\ resp_depth = 0
    /\ UnitInit

\* a controller and a registry over an empty storage directory
Init ==
    /\ CtlInit
    /\ tools = <<>>
    /\ storage = <<>>
    /\ clock = 1
    /\ ret = NoRet
    /\ threads = [t \in Threads |-> IdleThread]
    /\ calls = NoCalls

memVars == <<episodes, episodic>>
ghostVars == <<call_no, chain_start, last_exec>>

(***************************************************************************)
(* Registry operations, made by the owner of the controller between        *)
(* requests                                                                *)
(***************************************************************************)
Register ==
    /\ pc = "idle"
    /\ \E name \in RegNames, d \in RegDescriptions, code \in RegCodes :
          /\ tools' = register(tools, name, Version, d, <<>>, code)
          /\ storage' = save_tool(storage,
                                  get(tools', tool_id_of(name, Version)))
    /\ UNCHANGED <<clock, ret, concVars, unitVars>>
    /\ UNCHANGED <<agentVars, memVars, pc, depth, arg, tool, result,
                   response, ghostVars, chain_feedback, resp_depth>>

Deprecate ==
    /\ pc = "idle"
    /\ \E i \in 1..Len(tools) :
          /\ tools' = deprecate(tools, tools[i].id, clock)
          /\ storage' = save_tool(storage, tools'[i])
    /\ UNCHANGED <<clock, ret, concVars, unitVars>>
    /\ UNCHANGED <<agentVars, memVars, pc, depth, arg, tool, result,
                   response, ghostVars, chain_feedback, resp_depth>>

(***************************************************************************)
(* handle_request (agent/controller.py), step by step                      *)
(***************************************************************************)
\* a top-level call of handle_request(request)
Call ==
    /\ pc = "idle"
    /\ call_no < MaxCalls
    /\ \E task \in Tasks : arg' = task
    /\ pc' = "entry"
    /\ depth' = 1
    /\ call_no' = call_no + 1
    /\ chain_start' = Len(history)
    /\ chain_feedback' = <<>>
    /\ last_exec' = NoResult
    /\ tool' = NoTool
    /\ result' = NoResult
    /\ response' = NoResponse
    /\ resp_depth' = 0
    /\ UNCHANGED <<agentVars, memVars, tools>>
    /\ UNCHANGED <<regVars, unitVars>>

\* an entry guard that lets the attempt at retry_count = max_retries run
EntryGuardOffByOne == retry_count > max_retries

\* line 50
EntryGuard == retry_count >= max_retries

\* a reset made on every entry, retries included
first_attempt_always == TRUE

\* line 54
first_attempt == retry_count = 0

\* lines 49-55: the recursion guard and the reset of a first attempt
Entry ==
    /\ pc = "entry"
    /\ IF EntryGuard
       THEN /\ response' = graceful_degrade(feedback)
            /\ resp_depth' = depth
            /\ pc' = "return"
            /\ UNCHANGED agentVars
       ELSE /\ IF first_attempt THEN reset ELSE UNCHANGED agentVars
            /\ pc' = "start"
            /\ UNCHANGED <<response, resp_depth>>
    /\ UNCHANGED <<memVars, tools, depth, arg, tool, result, ghostVars,
                   chain_feedback>>
    /\ UNCHANGED <<regVars, unitVars>>

\* lines 57-58
StartPlan ==
    /\ pc = "start"
    /\ request' = arg
    /\ transition(PLAN)
    /\ pc' = "plan"
    /\ UNCHANGED <<plan, selected_tool, execution_result, feedback,
                   retry_count, memVars, tools, depth, arg, tool, result,
                   response, ghostVars, chain_feedback, resp_depth>>
    /\ UNCHANGED <<regVars, unitVars>>

\* lines 62-66: the rule-based planner calls task.lower()
PlanRaises ==
    /\ pc = "plan"
    /\ arg = NonString
    /\ pc' = "except"
    /\ UNCHANGED <<agentVars, memVars, tools, depth, arg, tool, result,
                   response, ghostVars, chain_feedback, resp_depth>>
    /\ UNCHANGED <<regVars, unitVars>>

\* lines 62-72: the registry (an injected collaborator) fails in search
SearchRaises ==
    /\ pc = "plan"
    /\ arg # NonString
    /\ plan' = make_plan(arg, relevant_history(episodic))
    /\ pc' = "except"
    /\ UNCHANGED <<current_state, request, selected_tool, execution_result,
                   feedback, history, retry_count, memVars, tools, depth,
                   arg, tool, result, response, ghostVars, chain_feedback,
                   resp_depth>>
    /\ UNCHANGED <<regVars, unitVars>>

\* lines 62-78: a candidate is found
SelectTool ==
    /\ pc = "plan"
    /\ arg # NonString
    /\ plan' = make_plan(arg, relevant_history(episodic))
    /\ LET candidates == search(plan'.intent, tools, search_limit) IN
         /\ Len(candidates) > 0
         /\ transition(SELECT_TOOL)
         /\ tool' = candidates[1]
         /\ selected_tool' = candidates[1].tool_id
    /\ pc' = "execute"
    /\ UNCHANGED <<request, execution_result, feedback, retry_count,
                   memVars, tools, depth, arg, result, response, ghostVars,
                   chain_feedback, resp_depth>>
    /\ UNCHANGED <<regVars, unitVars>>

\* lines 62-75, 84: no candidate
DesignTool ==
    /\ pc = "plan"
    /\ arg # NonString
    /\ plan' = make_plan(arg, relevant_history(episodic))
    /\ Len(search(plan'.intent, tools, search_limit)) = 0
    /\ transition(DESIGN_TOOL)
    /\ pc' = "design"
    /\ UNCHANGED <<request, selected_tool, execution_result, feedback,
                   retry_count, memVars, tools, depth, arg, tool, result,
                   response, ghostVars, chain_feedback, resp_depth>>
    /\ UNCHANGED <<regVars, unitVars>>

\* lines 86-87, 170-174: the code generator (an injected collaborator) fails
CreateToolRaises ==
    /\ pc = "design"
    /\ transition(VALIDATE)
    /\ pc' = "except"
    /\ UNCHANGED <<request, plan, selected_tool, execution_result, feedback,
                   retry_count, memVars, tools, depth, arg, tool, result,
                   response, ghostVars, chain_feedback, resp_depth>>
    /\ UNCHANGED <<regVars, unitVars>>

\* a test that lets a tool that was not created go on to the sandbox
tool_ready_always(t) == TRUE

\* line 89
tool_ready(t) == t.status = "READY"

\* lines 86-94, 170-174
CreateTool ==
    /\ pc = "design"
    /\ transition(VALIDATE)
    /\ \E generated \in GeneratedCodes, repaired \in RepairedCodes :
          tool' = create_tool(synthesize_tool_name(plan.intent),
                              generated, repaired)
    /\ IF tool_ready(tool')
       THEN /\ selected_tool' = tool'.tool_id
            /\ pc' = "execute"
            /\ UNCHANGED <<feedback, chain_feedback, result>>
       ELSE /\ add_feedback("tool_creation_failed")
            /\ result' = NoResult
            /\ pc' = "verify"
            /\ UNCHANGED selected_tool
    /\ UNCHANGED <<request, plan, execution_result, retry_count, memVars,
                   tools, depth, arg, response, ghostVars, resp_depth>>
    /\ UNCHANGED <<regVars, unitVars>>

\* lines 176-183: the sandbox returns a result
ExecuteTool ==
    /\ pc = "execute"
    /\ transition(EXECUTE)
    /\ \E r \in SandboxResults : result' = [r EXCEPT !.call = call_no]
    /\ last_exec' = result'
    /\ pc' = "verify"
    /\ UNCHANGED <<request, plan, selected_tool, execution_result, feedback,
                   retry_count, memVars, tools, depth, arg, tool, response,
                   call_no, chain_start, chain_feedback, resp_depth>>
    /\ UNCHANGED <<regVars, unitVars>>

\* lines 176-187: the sandbox (an injected collaborator) raises
ExecuteToolRaises ==
    /\ pc = "execute"
    /\ transition(EXECUTE)
    /\ add_feedback("execution_error")
    /\ result' = NoResult
    /\ pc' = "verify"
    /\ UNCHANGED <<request, plan, selected_tool, execution_result,
                   retry_count, memVars, tools, depth, arg, tool, response,
                   call_no, chain_start, last_exec, resp_depth>>
    /\ UNCHANGED <<regVars, unitVars>>

\* lines 97-98
Verify ==
    /\ pc = "verify"
    /\ transition(VERIFY)
    /\ pc' = IF validate_result_raises(result, default_criteria)
             THEN "except"
             ELSE IF Truthy(result) /\ validate_result(result, default_criteria)
                  THEN "respond" ELSE "bad"
    /\ UNCHANGED <<request, plan, selected_tool, execution_result, feedback,
                   retry_count, memVars, tools, depth, arg, tool, result,
                   response, ghostVars, chain_feedback, resp_depth>>
    /\ UNCHANGED <<regVars, unitVars>>

\* lines 99-101
Respond ==
    /\ pc = "respond"
    /\ execution_result' = result
    /\ transition(RESPOND)
    /\ response' = respond(result)
    /\ resp_depth' = depth
    /\ pc' = "return"
    /\ UNCHANGED <<request, plan, selected_tool, feedback, retry_count,
                   memVars, tools, depth, arg, tool, result, ghostVars,
                   chain_feedback>>
    /\ UNCHANGED <<regVars, unitVars>>

\* _learn_from_feedback, lines 189-204
learn_from_feedback ==
    /\ episodes' = Append(episodes, [task |-> request, outcome |-> "failure",
                                     count |-> Len(feedback')])
    /\ episodic' = Append(episodic, [task |-> request, outcome |-> "failure",
                                     count |-> Len(feedback')])

\* lines 103-108, 116
BadResult ==
    /\ pc = "bad"
    /\ add_feedback("bad_result")
    /\ IF should_reflect(feedback')
       THEN /\ transition(LEARN)
            /\ learn_from_feedback
            /\ pc' = "retry"
            /\ UNCHANGED <<response, resp_depth>>
       ELSE /\ response' = graceful_degrade(feedback')
            /\ resp_depth' = depth
            /\ pc' = "return"
            /\ UNCHANGED <<current_state, history, memVars>>
    /\ UNCHANGED <<request, plan, selected_tool, execution_result,
                   retry_count, tools, depth, arg, tool, result, ghostVars>>
    /\ UNCHANGED <<regVars, unitVars>>

\* a retry that forgets increment_retry()
RetryWithoutIncrement ==
    /\ pc = "retry"
    /\ depth' = depth + 1
    /\ pc' = "entry"
    /\ UNCHANGED <<agentVars, response, resp_depth, memVars, tools, arg,
                   tool, result, ghostVars, chain_feedback>>
    /\ UNCHANGED <<regVars, unitVars>>

\* lines 110-116: the retry decision; the retry is a nested call
RetryDecision ==
    /\ pc = "retry"
    /\ IF can_retry
       THEN /\ increment_retry
            /\ depth' = depth + 1
            /\ pc' = "entry"
            /\ UNCHANGED <<response, resp_depth>>
       ELSE /\ response' = graceful_degrade(feedback)
            /\ resp_depth' = depth
            /\ pc' = "return"
            /\ UNCHANGED <<retry_count, depth>>
    /\ UNCHANGED <<current_state, request, plan, selected_tool,
                   execution_result, feedback, history, memVars, tools, arg,
                   tool, result, ghostVars, chain_feedback>>
    /\ UNCHANGED <<regVars, unitVars>>

\* an exception handler that counts the failure as a retry and starts
\* another attempt
HandleExceptionRetrying ==
    /\ pc = "except"
    /\ transition(ERROR)
    /\ retry_count' = retry_count + 1
    /\ depth' = depth + 1
    /\ pc' = "entry"
    /\ UNCHANGED <<request, plan, selected_tool, execution_result, feedback,
                   memVars, tools, arg, tool, result, response, ghostVars,
                   chain_feedback, resp_depth>>
    /\ UNCHANGED <<regVars, unitVars>>

\* lines 118-125
HandleException ==
    /\ pc = "except"
    /\ transition(ERROR)
    /\ response' = error_response
    /\ resp_depth' = depth
    /\ pc' = "return"
    /\ UNCHANGED <<request, plan, selected_tool, execution_result, feedback,
                   retry_count, memVars, tools, depth, arg, tool, result,
                   ghostVars, chain_feedback>>
    /\ UNCHANGED <<regVars, unitVars>>

\* a frame returns: line 113 hands the nested call's response on unchanged;
\* the locals of the last frame go with it
Return ==
    /\ pc = "return"
    /\ depth' = depth - 1
    /\ pc' = IF depth > 1 THEN "return" ELSE "idle"
    /\ IF depth > 1
       THEN UNCHANGED <<arg, tool, result>>
       ELSE arg' = None /\ tool' = NoTool /\ result' = NoResult
    /\ UNCHANGED <<agentVars, memVars, tools, response, ghostVars,
                   chain_feedback, resp_depth>>
    /\ UNCHANGED <<regVars, unitVars>>

Step ==
    \/ Entry \/ StartPlan \/ PlanRaises \/ SearchRaises \/ SelectTool
    \/ DesignTool \/ CreateToolRaises \/ CreateTool \/ ExecuteTool
    \/ ExecuteToolRaises \/ Verify \/ Respond \/ BadResult \/ RetryDecision
    \/ HandleException \/ Return

Next == Register \/ Deprecate \/ Call \/ Step

Spec == Init /\ [][Next]_vars

\* a call that has started runs on: the handler is synchronous
FairSpec == Spec /\ WF_vars(Step)

(***************************************************************************)
(* Properties                                                              *)
(***************************************************************************)
\* the entries the running call chain has appended to the history
ChainEntries == (chain_start + 1)..Len(history)

\* the attempts the running call chain has started
Attempts == Cardinality({i \in ChainEntries : history[i].to = PLAN})

CountOf(category, fb) ==
    Cardinality({i \in 1..Len(fb) : fb[i] = category})

LearnCount == Cardinality({i \in 1..Len(history) : history[i].to = LEARN})

\* the step just taken called the sandbox
SandboxCalled == history' # history /\ current_state' = EXECUTE

\* C1: a designed tool holds status READY only with a code text that the
\* static validator passes without blocker, and the sandbox is called for a
\* designed tool only when create_tool returned READY, with that code.
C1_ValidatedBeforeExecution ==
    /\ [](tool.status = "READY" => ~has_blockers(validate(tool.code)))
    /\ [][(SandboxCalled /\ tool.origin = "designed")
            => (tool.status = "READY" /\ tool' = tool
                /\ ~has_blockers(validate(tool.code)))]_vars

\* C1 witness: the sandbox has run a designed tool whose code came from the
\* single repair
C1_Witness ==
    /\ pc = "verify"
    /\ current_state = EXECUTE
    /\ tool.origin = "designed"
    /\ tool.code = {"import_numpy"}

\* C2: retry_count stays within 0..max_retries, it never decreases while a
\* call chain runs, and can_retry() is true exactly below max_retries.
C2_RetryCountBounded ==
    /\ [](retry_count \in 0..max_retries)
    /\ [](can_retry <=> retry_count < max_retries)
    /\ [](retry_count = max_retries => ~can_retry)
    /\ [][(depth > 0 /\ depth' > 0) => retry_count' >= retry_count]_vars

\* C2 witness: max_retries increments have been made and can_retry() is false
C2_Witness == retry_count = max_retries /\ ~can_retry /\ depth > 0

\* C3: a call entered with retry_count >= max_retries returns a degraded
\* response and changes nothing: no history entry, no plan, no tool, no
\* result, no feedback; retry_count stays at max_retries ever after.
C3_ExhaustedCallDoesNothing ==
    /\ [][(pc = "entry" /\ retry_count >= max_retries)
            => (/\ pc' = "return"
                /\ response'.status = "degraded"
                /\ response'.feedback = feedback
                /\ UNCHANGED <<agentVars, memVars, tools, tool, result>>)]_vars
    /\ [][(pc = "return" /\ response.status = "degraded")
            => UNCHANGED <<agentVars, memVars, tools, response>>]_vars
    /\ [][retry_count >= max_retries => retry_count' >= max_retries]_vars

\* C3 witness: a later top-level call was answered degraded by the guard
C3_Witness ==
    /\ call_no >= 2
    /\ pc = "return"
    /\ depth = 1
    /\ resp_depth = 1
    /\ response.status = "degraded"
    /\ Len(history) = chain_start

\* C4: on a fresh controller, a first call all of whose attempts failed
\* verification is answered only after exactly three attempts, by the
\* fourth nested call, with status degraded and one bad_result entry per
\* attempt in the feedback.
C4_ThreeAttemptsThenDegraded ==
    (/\ call_no = 1
     /\ response.status # "none"
     /\ CountOf("bad_result", chain_feedback) = Attempts)
    => (/\ Attempts = max_retries
        /\ resp_depth = max_retries + 1
        /\ response.status = "degraded"
        /\ Len(response.feedback) >= max_retries
        /\ CountOf("bad_result", response.feedback) = max_retries)

\* C4 witness: the degraded response of the first call, after three attempts
C4_Witness ==
    /\ call_no = 1
    /\ pc = "idle"
    /\ response.status = "degraded"
    /\ Attempts = 3
    /\ Len(response.feedback) > 3

\* C5: every call terminates; the frames nested in one call are at most
\* max_retries + 1, and the response is success, degraded or error.
C5_Terminates ==
    /\ [](depth <= max_retries + 1)
    /\ [](pc \in {"return", "idle"} /\ call_no > 0
            => response.status \in {"success", "degraded", "error"})
    /\ ((pc # "idle") ~> (pc = "idle"))

\* C5 witness: a call that nested max_retries re-entries has returned
C5_Witness ==
    /\ pc = "idle"
    /\ call_no > 0
    /\ resp_depth = max_retries + 1
    /\ response.status = "degraded"

\* the entries of the attempt that is running or ran last
LastPlan ==
    IF \E i \in 1..Len(history) : history[i].to = PLAN
    THEN CHOOSE i \in 1..Len(history) :
            /\ history[i].to = PLAN
            /\ \A j \in (i + 1)..Len(history) : history[j].to # PLAN
    ELSE 0

\* C6: an exception inside an attempt leads to Error and to an error
\* response at once: the handler does not touch retry_count, the attempt
\* has not entered Learn and has not incremented retry_count, nothing is
\* appended and no attempt starts after Error, and every enclosing frame
\* hands the error response on unchanged.
C6_ExceptionReturnsError ==
    /\ [][pc = "except"
            => (/\ pc' = "return"
                /\ response' = error_response
                /\ current_state' = ERROR
                /\ history' = Append(history, [from |-> current_state,
                                               to |-> ERROR])
                /\ UNCHANGED <<retry_count, depth, memVars>>)]_vars
    /\ [][(pc = "return" /\ response.status = "error")
            => (/\ UNCHANGED <<agentVars, memVars, response>>
                /\ pc' \in {"return", "idle"}
                /\ depth' = depth - 1)]_vars
    /\ []((pc = "return" /\ response.status = "error")
            => (/\ history[Len(history)].to = ERROR
                /\ \A i \in LastPlan..Len(history) : history[i].to # LEARN
                /\ retry_count = LearnCount))

\* C6 witness: an error response raised in a retry has been handed on by an
\* enclosing frame
C6_Witness ==
    /\ pc = "return"
    /\ response.status = "error"
    /\ resp_depth >= 2
    /\ depth < resp_depth
    /\ retry_count > 0

\* the pairs of states that follow one another in the pipeline
PipelineOrder ==
    {<<PLAN, SELECT_TOOL>>, <<SELECT_TOOL, EXECUTE>>,
     <<PLAN, DESIGN_TOOL>>, <<DESIGN_TOOL, VALIDATE>>,
     <<VALIDATE, EXECUTE>>, <<VALIDATE, VERIFY>>,
     <<EXECUTE, VERIFY>>, <<VERIFY, RESPOND>>, <<VERIFY, LEARN>>}

\* an exception ends an attempt with Error
Aborts == {<<PLAN, ERROR>>, <<VALIDATE, ERROR>>, <<VERIFY, ERROR>>}

\* C7: the history follows the pipeline order: Plan opens every call and
\* every retry; SelectTool then Execute, or DesignTool then Validate then
\* Execute (only when the tool is READY, else Verify directly); Verify;
\* Respond or Learn. Execute comes only after SelectTool or Validate,
\* Respond and Learn only after Verify, Plan only after Learn inside a call.
\* An exception cuts the attempt short with Error.
C7_PipelineOrder ==
    /\ [](\A i \in 1..Len(history) :
            /\ history[i].to # IDLE
            /\ (i = chain_start + 1 /\ call_no > 0) => history[i].to = PLAN
            /\ (i > 1 /\ history[i].to = PLAN)
                 => history[i - 1].to \in
                      (IF i \in ChainEntries /\ i # chain_start + 1
                       THEN {LEARN} ELSE {RESPOND, ERROR, LEARN})
            /\ (i > 1 /\ history[i].to # PLAN)
                 => <<history[i - 1].to, history[i].to>>
                      \in PipelineOrder \cup Aborts)
    /\ [][(history' # history /\ current_state = VALIDATE
            /\ current_state' = EXECUTE) => tool.status = "READY"]_vars
    /\ [][(history' # history /\ current_state = VALIDATE
            /\ current_state' = VERIFY) => tool.status = "FAIL"]_vars

\* C7 witness: a retry whose first attempt designed a tool that was not
\* created and whose second attempt executed a selected or designed tool
C7_Witness ==
    /\ Len(history) >= chain_start + 9
    /\ history[chain_start + 3].to = VALIDATE
    /\ history[chain_start + 4].to = VERIFY
    /\ history[chain_start + 5].to = LEARN
    /\ history[chain_start + 6].to = PLAN
    /\ history[Len(history)].to = RESPOND

\* C8: every step leaves the history as it is or appends one entry, from
\* the current state to the new current state; reset keeps the history.
C8_HistoryAppendOnly ==
    [][\/ history' = history
       \/ history' = Append(history, [from |-> current_state,
                                      to |-> current_state'])]_vars

\* C8 witness: a reset was made on a controller whose history is not empty
C8_Witness ==
    /\ pc = "start"
    /\ current_state = IDLE
    /\ retry_count = 0
    /\ Len(history) >= 2
    /\ history[1] = [from |-> IDLE, to |-> PLAN]

\* C9: at the start of every top-level call the state is reset:
\* retry_count 0, no feedback, no plan, no selected tool, no execution
\* result.
C9_ResetAtFreshCall ==
    (depth = 1 /\ pc = "start")
    => (/\ retry_count = 0
        /\ feedback = <<>>
        /\ plan = NoPlan
        /\ selected_tool = None
        /\ execution_result = NoResult)

\* C10: a degraded response carries the feedback of its own call chain and,
\* as partial_result, the last result the sandbox produced in that chain;
\* never a result of an earlier call.
C10_DegradedCarriesChainResult ==
    (pc \in {"return", "idle"} /\ response.status = "degraded")
    => (/\ response.feedback = chain_feedback
        /\ response.partial_result = last_exec
        /\ response.partial_result.kind # "none"
             => response.partial_result.call = call_no)

C12_SynthesizedToolRegistered ==
    (pc = "return" /\ response.status = "success" /\ tool.origin = "designed")
    => (/\ IndexOf(tools, response.tool_used) # 0
        /\ \E i \in 1..Len(search(plan.intent, tools, search_limit)) :
              search(plan.intent, tools, search_limit)[i].tool_id
                 = response.tool_used)

\* C13: when handle_request has executed a capability selected from the
\* registry, the statistics of that capability have been updated: its
\* usage_count has been increased.
C13_ExecutionUpdatesStats ==
    (pc = "return" /\ tool.origin = "registry" /\ Truthy(last_exec))
    => tools[IndexOf(tools, tool.tool_id)].usage_count >= 1

(***************************************************************************)
(* The registry on its own (registry/tool_registry.py): the calls of one   *)
(* client, one after another.  Every write takes time: the clock advances. *)
(***************************************************************************)
RegisterCall ==
    /\ clock <= MaxRegOps
    /\ \E md \in RegInputs :
          /\ tools' = register(tools, md.name, Version, md.description,
                               md.tags, md.code)
          /\ storage' = save_tool(storage,
                                  get(tools', tool_id_of(md.name, Version)))
          /\ ret' = [NoRet EXCEPT !.op = "register", !.md = md,
                                  !.id = tool_id_of(md.name, Version),
                                  !.entry = get(tools, tool_id_of(md.name,
                                                                  Version))]
    /\ clock' = clock + 1
    /\ UNCHANGED <<ctlVars, unitVars, concVars>>

UpdateStatsCall ==
    /\ clock <= MaxRegOps
    /\ \E id \in RegIds, success \in BOOLEAN :
          /\ tools' = update_stats(tools, id, success)
          /\ storage' = IF IndexOf(tools, id) = 0 THEN storage
                        ELSE save_tool(storage, get(tools', id))
          /\ ret' = [NoRet EXCEPT !.op = "update_stats", !.id = id,
                                  !.flag = success]
    /\ clock' = clock + 1
    /\ UNCHANGED <<ctlVars, unitVars, concVars>>

DeprecateCall ==
    /\ clock <= MaxRegOps
    /\ \E id \in RegIds :
          /\ tools' = deprecate(tools, id, clock)
          /\ storage' = IF IndexOf(tools, id) = 0 THEN storage
                        ELSE save_tool(storage, get(tools', id))
          /\ ret' = [NoRet EXCEPT !.op = "deprecate", !.id = id,
                                  !.ok = deprecate_returns(tools, id)]
    /\ clock' = clock + 1
    /\ UNCHANGED <<ctlVars, unitVars, concVars>>

SearchCall ==
    /\ \E q \in Queries, l \in Limits :
          ret' = [NoRet EXCEPT !.op = "search", !.query = q, !.limit = l,
                               !.results = search(q, tools, l)]
    /\ UNCHANGED <<tools, storage, clock, ctlVars, unitVars, concVars>>

GetCall ==
    /\ \E id \in RegIds :
          ret' = [NoRet EXCEPT !.op = "get", !.id = id,
                               !.entry = get(tools, id)]
    /\ UNCHANGED <<tools, storage, clock, ctlVars, unitVars, concVars>>

ListAllCall ==
    /\ \E include_deprecated \in BOOLEAN :
          ret' = [NoRet EXCEPT !.op = "list_all",
                               !.flag = include_deprecated,
                               !.results = list_all(tools, include_deprecated)]
    /\ UNCHANGED <<tools, storage, clock, ctlVars, unitVars, concVars>>

RegistryNext ==
    \/ RegisterCall \/ UpdateStatsCall \/ DeprecateCall
    \/ SearchCall \/ GetCall \/ ListAllCall

RegistrySpec == Init /\ [][RegistryNext]_vars

\* C14: whatever register, update_stats and deprecate calls were made,
\* search returns no deprecated entry for any query and limit, and
\* list_all(include_deprecated = false) returns none either, while get
\* still returns a deprecated entry, with deprecated = true.
C14_DeprecatedHidden ==
    /\ \A q \in Queries, l \in Limits :
          \A i \in 1..Len(search(q, tools, l)) :
             ~get(tools, search(q, tools, l)[i].tool_id).deprecated
    /\ ret.op = "search"
         => \A i \in 1..Len(ret.results) :
               ~get(tools, ret.results[i].tool_id).deprecated
    /\ \A i \in 1..Len(list_all(tools, FALSE)) :
          ~list_all(tools, FALSE)[i].deprecated
    /\ (ret.op = "list_all" /\ ~ret.flag)
         => \A i \in 1..Len(ret.results) : ~ret.results[i].deprecated
    /\ \A i \in 1..Len(tools) :
          tools[i].deprecated
            => (/\ get(tools, tools[i].id).id = tools[i].id
                /\ get(tools, tools[i].id).deprecated)
    /\ (ret.op = "get" /\ IndexOf(tools, ret.id) # 0)
         => ret.entry = tools[IndexOf(tools, ret.id)]

\* a search that returns a tool while a deprecated tool matches the query
C14_Witness ==
    /\ ret.op = "search"
    /\ Len(ret.results) > 0
    /\ \E i \in 1..Len(tools) :
          /\ tools[i].deprecated
          /\ tools[i].usage_count > 0
          /\ search_score(LowerStr(ret.query), tools[i]) > 0

\* C15: after register(artifact, metadata, version), get(name_version)
\* returns the registered artifact and metadata equal to the registered
\* metadata in every field that update_stats and deprecate do not change,
\* the fields register does not read itself (owner, ...) included.
C15_RegisterGetRoundTrip ==
    ret.op = "register"
    => (/\ ret.id = tool_id_of(ret.md.name, Version)
        /\ get(tools, ret.id) # NoEntry
        /\ get(tools, ret.id).code = ret.md.code
        /\ get(tools, ret.id).name = ret.md.name
        /\ get(tools, ret.id).version = Version
        /\ get(tools, ret.id).description = ret.md.description
        /\ get(tools, ret.id).tags = ret.md.tags
        /\ ret.md.owner # Absent
             => get(tools, ret.id).owner = ret.md.owner)

\* the step is the call update_stats(id, success)
IsUpdateStats(id) ==
    /\ clock' = clock + 1
    /\ ret'.op = "update_stats"
    /\ ret'.id = id

\* the step is a register call that gives the id
IsRegister(id) ==
    /\ clock' = clock + 1
    /\ ret'.op = "register"
    /\ ret'.id = id

\* what one update_stats call does
UpdateStatsStep ==
    \A id \in RegIds :
       IsUpdateStats(id) =>
          IF IndexOf(tools, id) = 0
          THEN tools' = tools /\ storage' = storage
          ELSE LET i == IndexOf(tools, id)
                   outcome == IF ret'.flag THEN 1 ELSE 0 IN
               /\ Len(tools') = Len(tools)
               /\ 10 * tools'[i].success_rate
                    = RateOne * outcome + 9 * tools[i].success_rate
               /\ tools'[i].usage_count = tools[i].usage_count + 1
               /\ tools'[i] = [tools[i] EXCEPT
                                 !.success_rate = tools'[i].success_rate,
                                 !.usage_count = tools'[i].usage_count]
               /\ \A j \in 1..Len(tools) : j # i => tools'[j] = tools[j]
               /\ storage'[id] = tools'[i]

\* usage_count counts the update_stats calls since the registration: a
\* registration starts it at 0 and only update_stats(id, _) moves it
UsageCountStep ==
    \A i \in 1..Len(tools') :
       LET id == tools'[i].id IN
       IF IsRegister(id) THEN tools'[i].usage_count = 0
       ELSE /\ IndexOf(tools, id) = i
            /\ tools'[i].usage_count
                 = tools[i].usage_count + (IF IsUpdateStats(id) THEN 1 ELSE 0)

SuccessRateInRange ==
    \A i \in 1..Len(tools) :
       /\ tools[i].success_rate >= 0
       /\ tools[i].success_rate <= RateOne
       /\ tools[i].usage_count >= 0

\* C16: update_stats(id, outcome) on a known id sets success_rate to
\* 0.1 * outcome + 0.9 * the old success_rate and adds 1 to usage_count,
\* and changes no other field and no other entry; on an unknown id it
\* changes nothing.  So success_rate stays within [0, 1] and usage_count
\* is the number of update_stats calls since the registration.
C16_UpdateStats ==
    /\ []SuccessRateInRange
    /\ [][UpdateStatsStep /\ UsageCountStep]_vars

\* a tool updated with a failure and then with a success: 0.91
C16_Witness ==
    /\ ret.op = "update_stats"
    /\ ret.flag
    /\ \E i \in 1..Len(tools) :
          /\ tools[i].id = ret.id
          /\ tools[i].usage_count = 2
          /\ 100 * tools[i].success_rate = 91 * RateOne

\* the step is the call deprecate(id)
IsDeprecate(id) ==
    /\ clock' = clock + 1
    /\ ret'.op = "deprecate"
    /\ ret'.id = id

\* C17: deprecate(id) on a known id sets deprecated = true and returns
\* true, and a second deprecate(id) right after the first leaves the entry
\* as the first left it; on an unknown id deprecate returns false and
\* changes neither the index nor the storage.
C17_DeprecateIdempotent ==
    [][\A id \in RegIds :
          IsDeprecate(id) =>
             IF IndexOf(tools, id) = 0
             THEN ~ret'.ok /\ tools' = tools /\ storage' = storage
             ELSE /\ ret'.ok
                  /\ get(tools', id).deprecated
                  /\ (ret.op = "deprecate" /\ ret.id = id)
                       => get(tools', id) = get(tools, id)]_vars

\* the score as the claim gives it: 0.5 for the name, 0.3 for the
\* description, 0.2 when any tag matches
ClaimedScore(q, meta) ==
    (IF IsSubstring(q, LowerStr(meta.name)) THEN 5 ELSE 0)
    + (IF IsSubstring(q, LowerStr(meta.description)) THEN 3 ELSE 0)
    + (IF \E t \in 1..Len(meta.tags) : IsSubstring(q, LowerStr(meta.tags[t]))
       THEN 2 ELSE 0)

\* the live entries with a positive claimed score, in insertion order
ClaimedMatches(q, tl) ==
    SelectSeq(tl, LAMBDA meta : ~meta.deprecated /\ ClaimedScore(q, meta) > 0)

\* C18: search(query, limit) returns the non-deprecated entries whose
\* score is positive, the score being 0.5 (query in the name) + 0.3 (query
\* in the description) + 0.2 (query in any tag), which is at most 1.0
\* however many tags match; the results are in descending score, ties in
\* insertion order, and at most limit entries are returned.
C18_SearchScoring ==
    ret.op = "search"
    => LET q == LowerStr(ret.query)
           matches == ClaimedMatches(q, tools) IN
       /\ Len(ret.results) = IF Len(matches) > ret.limit THEN ret.limit
                             ELSE Len(matches)
       /\ \A i \in 1..Len(ret.results) :
             /\ ret.results[i].score
                  = ClaimedScore(q, get(tools, ret.results[i].tool_id))
             /\ ret.results[i].score > 0
             /\ ret.results[i].score <= 10
             /\ ~get(tools, ret.results[i].tool_id).deprecated
       /\ \A i, j \in 1..Len(ret.results) :
             i < j =>
               \/ ret.results[i].score > ret.results[j].score
               \/ /\ ret.results[i].score = ret.results[j].score
                  /\ IndexOf(tools, ret.results[i].tool_id)
                       < IndexOf(tools, ret.results[j].tool_id)
       /\ \A k \in 1..Len(matches) :
             (\A i \in 1..Len(ret.results) :
                 ret.results[i].tool_id # matches[k].id)
             => \A i \in 1..Len(ret.results) :
                   \/ ret.results[i].score > ClaimedScore(q, matches[k])
                   \/ /\ ret.results[i].score = ClaimedScore(q, matches[k])
                      /\ IndexOf(tools, ret.results[i].tool_id)
                           < IndexOf(tools, matches[k].id)

\* C19 as claimed: search with the empty query returns no entries,
\* whatever the registry holds.
C19_EmptyQueryNoResults ==
    (ret.op = "search" /\ ret.query = <<>>) => ret.results = <<>>

\* C19, amended: search with the empty query returns the non-deprecated
\* entries, every one of them when they are no more than limit and limit
\* of them otherwise, each with a score of at least 0.8 (the empty string
\* is in every name and every description).
C19_EmptyQueryListsLive ==
    (ret.op = "search" /\ ret.query = <<>>)
    => LET live == list_all(tools, FALSE) IN
       /\ Len(ret.results) = IF Len(live) > ret.limit THEN ret.limit
                             ELSE Len(live)
       /\ \A i \in 1..Len(ret.results) :
             /\ IndexOf(tools, ret.results[i].tool_id) # 0
             /\ ~get(tools, ret.results[i].tool_id).deprecated
             /\ ret.results[i].score >= 8
       /\ \A i, j \in 1..Len(ret.results) :
             i # j => ret.results[i].tool_id # ret.results[j].tool_id
       /\ Len(live) <= ret.limit
            => \A k \in 1..Len(live) :
                  \E i \in 1..Len(ret.results) :
                     ret.results[i].tool_id = live[k].id

\* an empty query answered with two tools
C19_Witness ==
    /\ ret.op = "search"
    /\ ret.query = <<>>
    /\ Len(ret.results) = 2

(***************************************************************************)
(* The registry shared by threads (registry/tool_registry.py has no lock): *)
(* a call is a sequence of steps, one per access to the shared index or    *)
(* to the storage, and the steps of the threads interleave.  A thread      *)
(* switch between a read and the dependent write of one statement is an    *)
(* outcome some interpreters produce and others do not: it is one of the   *)
(* interleavings.                                                          *)
(***************************************************************************)
\* the tool the registry finds in its storage directory when it is built
LoadedInput == CHOOSE md \in RegInputs : md.owner = Absent

LoadedId == tool_id_of(LoadedInput.name, Version)

\* _load_registry: a registry built over a directory that holds one tool
ConcInit ==
    /\ CtlInit
    /\ tools = register(<<>>, LoadedInput.name, Version,
                        LoadedInput.description, LoadedInput.tags,
                        LoadedInput.code)
    /\ storage = save_tool(<<>>, tools[1])
    /\ clock = 1
    /\ ret = NoRet
    /\ threads = [t \in Threads |-> IdleThread]
    /\ calls = NoCalls

\* the ToolMetadata object the call of thread t holds
MyMeta(t) ==
    IF threads[t].detached THEN threads[t].obj ELSE get(tools, LoadedId)

\* an attribute store of thread t: the object becomes meta, t goes to pc
StoreMeta(t, meta, next_pc) ==
    IF threads[t].detached
    THEN /\ threads' = [threads EXCEPT ![t].obj = meta, ![t].pc = next_pc]
         /\ UNCHANGED tools
    ELSE /\ tools' = [tools EXCEPT ![IndexOf(tools, LoadedId)] = meta]
         /\ threads' = [threads EXCEPT ![t].pc = next_pc]

\* a call starts
StartCall(t, op) ==
    /\ threads[t].pc = "idle"
    /\ calls.register + calls.update_stats + calls.deprecate < MaxThreadCalls
    /\ clock' = clock + 1
    /\ calls' = [calls EXCEPT ![op] = @ + 1]

\* update_stats, lines 194-196: meta = self.tools.get(tool_id), and the
\* read of meta.usage_count += 1
ConcUpdateLoad ==
    \E t \in Threads, success \in BOOLEAN :
       /\ StartCall(t, "update_stats")
       /\ threads' = [threads EXCEPT
                        ![t].pc = "update_store_count", ![t].flag = success,
                        ![t].count = get(tools, LoadedId).usage_count]
       /\ UNCHANGED <<tools, storage, ret, ctlVars, unitVars>>

\* line 196: the write of meta.usage_count += 1
ConcUpdateStoreCount ==
    \E t \in Threads :
       /\ threads[t].pc = "update_store_count"
       /\ StoreMeta(t, [MyMeta(t) EXCEPT
                          !.usage_count = threads[t].count + 1],
                    "update_load_rate")
       /\ UNCHANGED <<storage, clock, ret, calls, ctlVars, unitVars>>

\* lines 200, 203: the read of meta.success_rate
ConcUpdateLoadRate ==
    \E t \in Threads :
       /\ threads[t].pc = "update_load_rate"
       /\ threads' = [threads EXCEPT ![t].pc = "update_store_rate",
                                     ![t].rate = MyMeta(t).success_rate]
       /\ UNCHANGED <<tools, storage, clock, ret, calls, ctlVars, unitVars>>

\* lines 200, 203: the write of meta.success_rate
ConcUpdateStoreRate ==
    \E t \in Threads :
       /\ threads[t].pc = "update_store_rate"
       /\ StoreMeta(t, [MyMeta(t) EXCEPT
                          !.success_rate =
                             ema(IF threads[t].flag THEN 1 ELSE 0,
                                 threads[t].rate)],
                    "dump")
       /\ UNCHANGED <<storage, clock, ret, calls, ctlVars, unitVars>>

\* deprecate, lines 209-211: meta = self.tools.get(tool_id) and
\* meta.deprecated = True
ConcDeprecateSetFlag ==
    \E t \in Threads :
       /\ StartCall(t, "deprecate")
       /\ tools' = [tools EXCEPT ![IndexOf(tools, LoadedId)].deprecated = TRUE]
       /\ threads' = [threads EXCEPT ![t].pc = "deprecate_set_date"]
       /\ UNCHANGED <<storage, ret, ctlVars, unitVars>>

\* line 212: meta.deprecation_date = utcnow()
ConcDeprecateSetDate ==
    \E t \in Threads :
       /\ threads[t].pc = "deprecate_set_date"
       /\ StoreMeta(t, [MyMeta(t) EXCEPT !.deprecation_date = clock], "dump")
       /\ UNCHANGED <<storage, clock, ret, calls, ctlVars, unitVars>>

\* register, lines 100-113: a new ToolMetadata object takes the place of the
\* entry; self.artifacts still holds the artifact of the entry it replaces.
\* The calls that run on the old object keep it.
ConcRegisterStoreMeta ==
    \E t \in Threads :
       /\ StartCall(t, "register")
       /\ tools' = [tools EXCEPT ![IndexOf(tools, LoadedId)] =
                      [NewToolMetadata(LoadedInput.name, Version,
                                       LoadedInput.description,
                                       LoadedInput.tags, LoadedInput.code)
                         EXCEPT !.code = get(tools, LoadedId).code]]
       /\ threads' = [u \in Threads |->
                        IF u = t
                        THEN [threads[u] EXCEPT !.pc = "register_store_artifact"]
                        ELSE IF threads[u].pc # "idle" /\ ~threads[u].detached
                        THEN [threads[u] EXCEPT
                                !.detached = TRUE,
                                !.obj = get(tools, LoadedId)]
                        ELSE threads[u]]
       /\ UNCHANGED <<storage, ret, ctlVars, unitVars>>

\* line 114: self.artifacts[tool_id] = artifact
ConcRegisterStoreArtifact ==
    \E t \in Threads :
       /\ threads[t].pc = "register_store_artifact"
       /\ tools' = [tools EXCEPT
                      ![IndexOf(tools, LoadedId)].code = LoadedInput.code]
       /\ threads' = [threads EXCEPT ![t].pc = "dump"]
       /\ UNCHANGED <<storage, clock, ret, calls, ctlVars, unitVars>>

\* _save_tool, lines 244, 248: json.dumps of the object the call holds and
\* of the artifact
ConcDump ==
    \E t \in Threads :
       /\ threads[t].pc = "dump"
       /\ threads' = [threads EXCEPT
                        ![t].pc = "write",
                        ![t].text = [MyMeta(t) EXCEPT
                                       !.code = get(tools, LoadedId).code]]
       /\ UNCHANGED <<tools, storage, clock, ret, calls, ctlVars, unitVars>>

\* _save_tool, lines 244, 248: write_text; the call returns
ConcWrite ==
    \E t \in Threads :
       /\ threads[t].pc = "write"
       /\ storage' = save_tool(storage, threads[t].text)
       /\ threads' = [threads EXCEPT ![t] = IdleThread]
       /\ UNCHANGED <<tools, clock, ret, calls, ctlVars, unitVars>>

\* get, lines 178-190, by a thread that is in no other call
ConcGet ==
    \E t \in Threads :
       /\ threads[t].pc = "idle"
       /\ ret' = [NoRet EXCEPT !.op = "get", !.id = LoadedId,
                               !.entry = get(tools, LoadedId)]
       /\ UNCHANGED <<tools, storage, clock, threads, calls, ctlVars, unitVars>>

ConcNext ==
    \/ ConcUpdateLoad \/ ConcUpdateStoreCount \/ ConcUpdateLoadRate
    \/ ConcUpdateStoreRate \/ ConcDeprecateSetFlag \/ ConcDeprecateSetDate
    \/ ConcRegisterStoreMeta \/ ConcRegisterStoreArtifact
    \/ ConcDump \/ ConcWrite \/ ConcGet

ConcurrentSpec == ConcInit /\ [][ConcNext]_vars

\* C20: the writes of the registry exclude each other, so that concurrent
\* calls leave what some sequential order of them leaves: when n
\* update_stats calls on one id have run (and no register), usage_count has
\* grown by n, in the index and in the storage.
C20_NoLostUpdate ==
    ((\A t \in Threads : threads[t].pc = "idle") /\ calls.register = 0)
    => (/\ get(tools, LoadedId).usage_count = calls.update_stats
        /\ storage[LoadedId].usage_count = calls.update_stats)

(***************************************************************************)
(* ValidatorSpec: ValidationResult objects and StaticValidator.validate    *)
(* used on their own.  A result is made empty, validate fills a fresh one, *)
(* and add_finding may be called on any result.                            *)
(***************************************************************************)
Severities == {"critical", "high", "medium", "low"}
Categories == {"policy", "types"}

\* the texts handed to validate
CodeTexts == {c \in SUBSET Features : Cardinality(c) <= MaxFeatures}

\* ValidationResult.add_finding
AddFindingCall(severity, category) ==
    /\ Len(validation_result.findings) < MaxFindings
    /\ validation_result' = add_finding(validation_result, severity, category)
    /\ UNCHANGED <<validated, validatorRest>>

\* StaticValidator(allow_network).validate(code): result = ValidationResult()
\* and the stages
ValidateCall(code, allow_network) ==
    /\ validated = NoValidated
    /\ validation_result = NewValidationResult
    /\ validation_result' = validate_with(code, allow_network)
    /\ validated' = [code |-> code, allow_network |-> allow_network]
    /\ UNCHANGED validatorRest

ValidatorNext ==
    \/ \E severity \in Severities, category \in Categories :
          AddFindingCall(severity, category)
    \/ \E code \in CodeTexts, allow_network \in BOOLEAN :
          ValidateCall(code, allow_network)

ValidatorSpec == Init /\ [][ValidatorNext]_vars

\* the text has an import statement whose base module is always dangerous
HasDangerousImport(code) ==
    \E f \in code \cap DOMAIN ImportNodes :
       /\ ImportNodes[f].module # None
       /\ base_module(ImportNodes[f].module) \in always_dangerous

HasCriticalPolicyBlocker(r) ==
    \E i \in 1..Len(r.blockers) :
       /\ r.blockers[i].severity = "critical"
       /\ r.blockers[i].category = "policy"

\* C23 as claimed: for every code text that contains an import (import X,
\* import X.y, from X import ...) whose base module is in the
\* always-dangerous set, validate returns passed = false and at least one
\* blocker of severity critical and category policy, whether or not
\* network access was granted.
C23_DangerousImportBlocked ==
    HasDangerousImport(validated.code)
    => /\ ~validation_result.passed
       /\ HasCriticalPolicyBlocker(validation_result)

\* C23, amended: the same for every code text that parses; a text that
\* does not parse is refused with its critical syntax finding alone,
\* whatever it imports.
C23_ParsedDangerousImportBlocked ==
    (HasDangerousImport(validated.code)
     /\ "syntax_error" \notin validated.code)
    => /\ ~validation_result.passed
       /\ HasCriticalPolicyBlocker(validation_result)

\* "import os.path" validated with network access granted
C23_Witness ==
    /\ validated.code = {"import_os_path"}
    /\ validated.allow_network
    /\ HasCriticalPolicyBlocker(validation_result)

IsBlocker(finding) == finding.severity \in {"critical", "high"}

\* C24: in every ValidationResult reached by a sequence of add_finding
\* calls, blockers is the sub-sequence of the findings of severity
\* critical or high, passed is true exactly when blockers is empty, which
\* is when has_blockers() is false; a result whose findings are all medium
\* or low has passed.
C24_BlockersAndPassed ==
    /\ validation_result.blockers
         = SelectSeq(validation_result.findings, IsBlocker)
    /\ validation_result.passed = (validation_result.blockers = <<>>)
    /\ validation_result.passed = ~has_blockers(validation_result)
    /\ (\A i \in 1..Len(validation_result.findings) :
           validation_result.findings[i].severity \in {"medium", "low"})
       => validation_result.passed

\* a medium finding between a high one and a critical one
C24_Witness ==
    /\ Len(validation_result.findings) = 3
    /\ validation_result.findings[1].severity = "high"
    /\ validation_result.findings[2].severity = "medium"
    /\ validation_result.findings[3].severity = "critical"
    /\ Len(validation_result.blockers) = 2

(***************************************************************************)
(* CodegenSpec: CodeGenerator.create_tool and ReActPlanner.plan called on  *)
(* their own, create_tool step by step.  What the remote model answers,    *)
(* or that its call fails, is an input of the step that calls it; without  *)
(* a model no call is made.                                                *)
(***************************************************************************)
LLMCodes == {LLMFails, EmptyCode, TemplateCode, {"import_os"},
             {"import_numpy"}, {"call_open"}, {"syntax_error"}}
LLMPlans == {PlanFails,
             [strategy |-> "cot", intent |-> <<"a">>, confidence |-> 9]}
Histories == {<<>>, <<"episode">>}

CreateToolCall(name, use_llm) ==
    /\ synthesis.pc \in {"idle", "returned"}
    /\ synthesis' = [NoSynthesis EXCEPT !.pc = "generate", !.name = name,
                                        !.use_llm = use_llm]
    /\ UNCHANGED <<planning, codegenRest>>

\* code = self._generate_code(spec); if not code: return FAIL
GenerateCode(llm) ==
    /\ synthesis.pc = "generate"
    /\ synthesis.use_llm \/ llm = LLMFails
    /\ LET g == generate_code(synthesis.use_llm, llm) IN
       synthesis' =
         IF g.raised
         THEN [synthesis EXCEPT !.pc = "raised", !.llm_code = llm]
         ELSE IF IsFalsy(g.code)
         THEN [synthesis EXCEPT
                 !.pc = "returned", !.llm_code = llm, !.code = g.code,
                 !.ret = FailTool("generation_failed", <<>>)]
         ELSE [synthesis EXCEPT
                 !.pc = "validate", !.llm_code = llm, !.code = g.code]
    /\ UNCHANGED <<planning, codegenRest>>

\* a pipeline that asks for another repair when the repaired text is
\* blocked again
ValidateCodeUntilClean ==
    /\ synthesis.pc \in {"validate", "revalidate"}
    /\ LET v == validate(synthesis.code) IN
       synthesis' =
         [synthesis EXCEPT
            !.validation = v,
            !.validations = @ + 1,
            !.pc = IF has_blockers(v) THEN "repair" ELSE "package"]
    /\ UNCHANGED <<planning, codegenRest>>

\* validation = self.validator.validate(code), of the generated text
\* (line 45) and of the repaired text (line 52)
ValidateCode ==
    /\ synthesis.pc \in {"validate", "revalidate"}
    /\ LET v == validate(synthesis.code) IN
       synthesis' =
         [synthesis EXCEPT
            !.validation = v,
            !.validations = @ + 1,
            !.pc = IF ~has_blockers(v) THEN "package"
                   ELSE IF synthesis.pc = "validate" THEN "repair"
                   ELSE "returned",
            !.ret = IF has_blockers(v) /\ synthesis.pc = "revalidate"
                    THEN FailTool("validation_failed", v.blockers)
                    ELSE @]
    /\ UNCHANGED <<planning, codegenRest>>

\* code = self._attempt_repair(code, validation); if code: ... else FAIL
AttemptRepair(llm) ==
    /\ synthesis.pc = "repair"
    /\ synthesis.use_llm \/ llm = LLMFails
    /\ LET g == attempt_repair(synthesis.use_llm, llm) IN
       synthesis' =
         IF g.raised
         THEN [synthesis EXCEPT !.pc = "raised", !.llm_repair = llm,
                                !.repairs = @ + 1]
         ELSE IF IsFalsy(g.code)
         THEN [synthesis EXCEPT
                 !.pc = "returned", !.llm_repair = llm, !.repairs = @ + 1,
                 !.code = g.code,
                 !.ret = FailTool("validation_failed",
                                  synthesis.validation.blockers)]
         ELSE [synthesis EXCEPT
                 !.pc = "revalidate", !.llm_repair = llm,
                 !.repairs = @ + 1, !.code = g.code]
    /\ UNCHANGED <<planning, codegenRest>>

\* the type check, _package_code, _run_smoke_tests and _generate_version
PackageAndTest ==
    /\ synthesis.pc = "package"
    /\ synthesis' =
         IF ~run_smoke_tests(synthesis.code)
         THEN [synthesis EXCEPT
                 !.pc = "returned",
                 !.performed = {"type_check", "package", "smoke_tests"},
                 !.ret = FailTool("tests_failed", <<>>)]
         ELSE [synthesis EXCEPT
                 !.pc = "returned",
                 !.performed = {"type_check", "package", "smoke_tests",
                                "version"},
                 !.ret = [NoTool EXCEPT !.status = "READY",
                                        !.tool_id = synthesis.name,
                                        !.code = synthesis.code,
                                        !.origin = "designed"]]
    /\ UNCHANGED <<planning, codegenRest>>

\* ReActPlanner(use_llm).plan(context)
PlanCall(use_llm, llm, task, hist) ==
    /\ use_llm \/ llm = PlanFails
    /\ LET p == ReActPlanner_plan(use_llm, llm, task, hist) IN
       planning' = [pc |-> IF p.raised THEN "raised" ELSE "returned",
                    use_llm |-> use_llm, llm |-> llm, task |-> task,
                    hist |-> hist, plan |-> p.plan]
    /\ UNCHANGED <<synthesis, codegenRest>>

CodegenNext ==
    \/ \E name \in RegNames, use_llm \in BOOLEAN :
          CreateToolCall(name, use_llm)
    \/ \E llm \in LLMCodes : GenerateCode(llm)
    \/ ValidateCode
    \/ \E llm \in LLMCodes : AttemptRepair(llm)
    \/ PackageAndTest
    \/ \E use_llm \in BOOLEAN, llm \in LLMPlans, task \in Tasks,
          hist \in Histories : PlanCall(use_llm, llm, task, hist)

CodegenSpec == Init /\ [][CodegenNext]_vars

\* the text the first validation of the call sees, and the text the
\* repair gives
FirstCode == generate_code(synthesis.use_llm, synthesis.llm_code).code
RepairedCode == attempt_repair(synthesis.use_llm, synthesis.llm_repair).code

\* C25: in one create_tool call repair is requested at most once and the
\* Static Validator runs at most twice; when the first validation is
\* blocked and either no repaired code is obtained or the repaired code is
\* blocked again, the call returns FAIL with reason validation_failed and
\* the blocking findings of the last validation, and packaging, smoke
\* tests and versioning are not performed.
C25_OneRepairThenFail ==
    /\ synthesis.repairs <= 1
    /\ synthesis.validations <= 2
    /\ synthesis.validations <= synthesis.repairs + 1
    /\ (/\ synthesis.pc = "returned"
        /\ synthesis.validations >= 1
        /\ has_blockers(validate(FirstCode))
        /\ \/ IsFalsy(RepairedCode)
           \/ has_blockers(validate(RepairedCode)))
       => /\ synthesis.repairs = 1
          /\ synthesis.ret.status = "FAIL"
          /\ synthesis.ret.reason = "validation_failed"
          /\ synthesis.ret.findings # <<>>
          /\ synthesis.ret.findings
               = IF IsFalsy(RepairedCode)
                 THEN validate(FirstCode).blockers
                 ELSE validate(RepairedCode).blockers
          /\ synthesis.performed = {}

\* a repaired text that is blocked again
C25_Witness ==
    /\ synthesis.pc = "returned"
    /\ synthesis.validations = 2
    /\ synthesis.repairs = 1
    /\ synthesis.llm_code = {"import_os"}
    /\ synthesis.llm_repair = {"call_open"}
    /\ synthesis.ret.reason = "validation_failed"

Stdouts == {"", " ", "<json success>", "<json error>", "text"}
ExitCodes == {0, 1}

\* json.loads(stdout.strip())
IsJson(stdout) == stdout \in {"<json success>", "<json error>"}
json_loads(stdout) ==
    IF stdout = "<json success>"
    THEN [status |-> "success", error |-> "", result |-> "value",
          stdout |-> ""]
    ELSE [status |-> "error", error |-> "tool raised", result |-> "",
          stdout |-> ""]

\* f"Process exited with code {returncode}"
ExitError(returncode) ==
    IF returncode = 0 THEN "Process exited with code 0"
    ELSE "Process exited with code 1"

\* _execute_with_limits, "Parse result"
parse_result(returncode, stdout) ==
    IF returncode = 0 /\ stdout # ""
    THEN IF IsJson(stdout) THEN json_loads(stdout)
         ELSE [status |-> "success", error |-> "", result |-> "output",
               stdout |-> stdout]
    ELSE [status |-> "error", error |-> ExitError(returncode),
          result |-> "", stdout |-> stdout]

\* the result of the two except clauses
ExceptionResult ==
    [status |-> "error", error |-> "exception", result |-> "", stdout |-> ""]

ExecuteCall ==
    /\ sandbox.pc \in {"idle", "returned"}
    /\ sandbox' = [NoSandbox EXCEPT !.pc = "prepare"]
    /\ UNCHANGED sandboxRest

\* _prepare_environment: mkdtemp, then write_text of the tool code; a
\* failure of either leaves execute through its except clause
PrepareEnvironment(outcome) ==
    /\ sandbox.pc = "prepare"
    /\ sandbox' =
         IF outcome = "ok"
         THEN [sandbox EXCEPT !.pc = "script", !.area = "present"]
         ELSE [sandbox EXCEPT
                 !.pc = "returned",
                 !.area = IF outcome = "write_fails" THEN "present" ELSE @,
                 !.failures = @ \cup {"prepare"},
                 !.result = ExceptionResult]
    /\ UNCHANGED sandboxRest

\* _create_exec_script: json.dumps(args) and write_text
CreateExecScript(fails) ==
    /\ sandbox.pc = "script"
    /\ sandbox' =
         IF fails
         THEN [sandbox EXCEPT !.pc = "returned",
                              !.failures = @ \cup {"script"},
                              !.result = ExceptionResult]
         ELSE [sandbox EXCEPT !.pc = "launch"]
    /\ UNCHANGED sandboxRest

\* subprocess.Popen
Launch(fails) ==
    /\ sandbox.pc = "launch"
    /\ sandbox' =
         IF fails
         THEN [sandbox EXCEPT !.pc = "cleanup",
                              !.failures = @ \cup {"launch"},
                              !.result = ExceptionResult]
         ELSE [sandbox EXCEPT !.pc = "wait", !.process = "running"]
    /\ UNCHANGED sandboxRest

\* the process writes to its stdout
ProcessOutput(out) ==
    /\ sandbox.process = "running"
    /\ sandbox.stdout = ""
    /\ out # ""
    /\ sandbox' = [sandbox EXCEPT !.stdout = out]
    /\ UNCHANGED sandboxRest

\* the process exits
ProcessExit(code) ==
    /\ sandbox.process = "running"
    /\ sandbox' = [sandbox EXCEPT !.process = "exited", !.returncode = code]
    /\ UNCHANGED sandboxRest

\* communicate(timeout) returns: the process has exited
WaitReturns ==
    /\ sandbox.pc = "wait"
    /\ sandbox.process = "exited"
    /\ sandbox' = [sandbox EXCEPT
                     !.pc = "cleanup",
                     !.result = parse_result(sandbox.returncode,
                                             sandbox.stdout)]
    /\ UNCHANGED sandboxRest

\* communicate(timeout) raises something else than TimeoutExpired
WaitRaises ==
    /\ sandbox.pc = "wait"
    /\ sandbox' = [sandbox EXCEPT !.pc = "cleanup",
                                  !.failures = @ \cup {"wait"},
                                  !.result = ExceptionResult]
    /\ UNCHANGED sandboxRest

\* communicate(timeout) raises TimeoutExpired: wall_time_limit has passed
\* and the process has not exited
LimitElapses ==
    /\ sandbox.pc = "wait"
    /\ sandbox.process = "running"
    /\ sandbox' = [sandbox EXCEPT !.pc = "kill", !.timed_out = TRUE]
    /\ UNCHANGED sandboxRest

\* a timeout handler that collects the output and leaves the process
KillProcessNoKill ==
    /\ sandbox.pc = "kill"
    /\ sandbox' =
         [sandbox EXCEPT
            !.pc = "cleanup",
            !.result = [status |-> "timeout",
                        error |-> "Execution timed out", result |-> "",
                        stdout |-> sandbox.stdout]]
    /\ UNCHANGED sandboxRest

\* process.kill(); communicate(); return the timeout result
KillProcess ==
    /\ sandbox.pc = "kill"
    /\ sandbox' =
         [sandbox EXCEPT
            !.pc = "cleanup",
            !.process = IF @ = "running" THEN "killed" ELSE @,
            !.result = [status |-> "timeout",
                        error |-> "Execution timed out", result |-> "",
                        stdout |-> sandbox.stdout]]
    /\ UNCHANGED sandboxRest

\* a cleanup without its try: the failure of rmtree is raised
CleanupUnguarded(fails) ==
    /\ sandbox.pc = "cleanup"
    /\ sandbox' =
         IF fails
         THEN [sandbox EXCEPT !.pc = "raised",
                              !.failures = @ \cup {"cleanup"}]
         ELSE [sandbox EXCEPT !.pc = "returned", !.area = "removed"]
    /\ UNCHANGED sandboxRest

\* _cleanup, and execute returns the result: a failure of rmtree is
\* logged and the area stays
Cleanup(fails) ==
    /\ sandbox.pc = "cleanup"
    /\ sandbox' =
         IF fails
         THEN [sandbox EXCEPT !.pc = "returned",
                              !.failures = @ \cup {"cleanup"}]
         ELSE [sandbox EXCEPT !.pc = "returned", !.area = "removed"]
    /\ UNCHANGED sandboxRest

\* the steps of the thread that runs execute
ExecutorStep ==
    \/ \E outcome \in {"ok", "mkdtemp_fails", "write_fails"} :
          PrepareEnvironment(outcome)
    \/ \E fails \in BOOLEAN : CreateExecScript(fails)
    \/ \E fails \in BOOLEAN : Launch(fails)
    \/ WaitReturns
    \/ WaitRaises
    \/ LimitElapses
    \/ KillProcess
    \/ \E fails \in BOOLEAN : Cleanup(fails)

SandboxNext ==
    \/ ExecuteCall
    \/ ExecutorStep
    \/ \E out \in Stdouts : ProcessOutput(out)
    \/ \E code \in ExitCodes : ProcessExit(code)

SandboxSpec == Init /\ [][SandboxNext]_vars

\* the thread that runs execute goes on, and the wall-clock limit passes
FairSandboxSpec == SandboxSpec /\ WF_vars(ExecutorStep)

\* C27 as claimed: execute never propagates an exception, and any failure
\* while preparing the working area, writing the wrapper script, launching
\* or waiting for the process, or cleaning up gives a returned result with
\* status error.
C27_EveryFailureIsAnError ==
    /\ sandbox.pc # "raised"
    /\ (sandbox.pc = "returned" /\ sandbox.failures # {})
       => sandbox.result.status = "error"

\* C27, amended: execute never propagates an exception of one of its
\* steps; a failure while preparing the working area, writing the wrapper
\* script, launching or waiting for the process gives a returned result
\* with status error; a failure while cleaning up is logged, and the
\* result the execution gave is returned as it is.
C27_FailuresContained ==
    /\ [](/\ sandbox.pc # "raised"
          /\ (/\ sandbox.pc = "returned"
              /\ sandbox.failures
                   \cap {"prepare", "script", "launch", "wait"} # {})
             => sandbox.result.status = "error")
    /\ [][sandbox.pc = "cleanup"
          => /\ sandbox'.pc \in {"cleanup", "returned"}
             /\ sandbox'.result = sandbox.result]_vars

\* a call whose cleanup failed returns the success of the process
C27_Witness ==
    /\ sandbox.pc = "returned"
    /\ sandbox.failures = {"cleanup"}
    /\ sandbox.result.status = "success"

\* C28: every working area created by an execute call has been removed
\* when the call returns, on every exit path that does not fail in the
\* removal itself: normal completion, non-zero exit, timeout, and a
\* failure raised while writing the tool code or the wrapper script after
\* the area was created.
C28_AreaRemovedOnReturn ==
    (sandbox.pc = "returned" /\ "cleanup" \notin sandbox.failures)
    => sandbox.area # "present"

ExitedInTime ==
    /\ sandbox.pc \in {"cleanup", "returned"}
    /\ sandbox.process = "exited"
    /\ ~sandbox.timed_out
    /\ "wait" \notin sandbox.failures

\* C30: for a process that exits before the limit, a non-zero exit gives
\* status error naming the exit code; a zero exit with a stdout that
\* parses as JSON gives the parsed value unchanged; a zero exit with a
\* non-empty stdout that does not parse gives status success with result
\* {output: stdout}; a zero exit is never reported as an error by the
\* executor itself.
C30_ExitResults ==
    ExitedInTime
    => /\ sandbox.returncode # 0
          => sandbox.result = [status |-> "error",
                               error |-> ExitError(sandbox.returncode),
                               result |-> "", stdout |-> sandbox.stdout]
       /\ (sandbox.returncode = 0 /\ IsJson(sandbox.stdout))
          => sandbox.result = json_loads(sandbox.stdout)
       /\ (sandbox.returncode = 0 /\ sandbox.stdout # ""
           /\ ~IsJson(sandbox.stdout))
          => sandbox.result = [status |-> "success", error |-> "",
                               result |-> "output",
                               stdout |-> sandbox.stdout]
       /\ (sandbox.returncode = 0 /\ sandbox.result.status = "error")
          => /\ IsJson(sandbox.stdout)
             /\ sandbox.result = json_loads(sandbox.stdout)

(***************************************************************************)
(* StorageSpec: the storage directory of a registry.  _save_tool writes    *)
(* metadata.json and then artifact.json; the process may stop at any       *)
(* point, also in the middle of a write_text (the file is then truncated); *)
(* files may be lost or damaged while no registry runs; a new registry is  *)
(* then built on the directory and _load_registry visits the slots in the  *)
(* order iterdir() gives them.                                             *)
(***************************************************************************)
\* register (new metadata and new artifact) and update_stats or deprecate
\* (new metadata, the artifact the registry holds) reach _save_tool
SaveCall(id, op) ==
    /\ saving.pc = "idle"
    /\ loader.pc = "down"
    /\ saving.saves < MaxSaves
    /\ op = "update" => disk[id].metadata.state = "ok"
    /\ saving' =
         [saving EXCEPT
            !.pc = "metadata",
            !.id = id,
            !.old = disk[id],
            !.new = [metadata |-> OkFile(id, saving.saves + 1),
                     artifact |-> IF op = "register"
                                  THEN OkFile(id, saving.saves + 1)
                                  ELSE disk[id].artifact],
            !.saves = @ + 1]
    /\ UNCHANGED <<disk, loader, storageRest>>

\* meta_path.write_text(json.dumps(metadata.to_dict()))
WriteMetadata ==
    /\ saving.pc = "metadata"
    /\ disk' = [disk EXCEPT ![saving.id].metadata = saving.new.metadata]
    /\ saving' = [saving EXCEPT !.pc = "artifact"]
    /\ UNCHANGED <<loader, storageRest>>

\* artifact_path.write_text(json.dumps(artifact)), and the call returns
WriteArtifact ==
    /\ saving.pc = "artifact"
    /\ disk' = [disk EXCEPT ![saving.id].artifact = saving.new.artifact]
    /\ saving' = [saving EXCEPT !.pc = "idle"]
    /\ UNCHANGED <<loader, storageRest>>

\* the process stops before the next write (torn = FALSE) or within it
Crash(torn) ==
    /\ saving.pc \in {"metadata", "artifact"}
    /\ disk' = IF ~torn THEN disk
               ELSE IF saving.pc = "metadata"
               THEN [disk EXCEPT ![saving.id].metadata = CorruptFile]
               ELSE [disk EXCEPT ![saving.id].artifact = CorruptFile]
    /\ saving' = [saving EXCEPT !.pc = "stopped"]
    /\ UNCHANGED <<loader, storageRest>>

\* a file of a slot is lost or damaged while no registry runs
Damage(slot, file, how) ==
    /\ saving.pc \in {"idle", "stopped"}
    /\ loader.pc = "down"
    /\ saving.damages < MaxDamage
    /\ disk[slot][file].state = "ok"
    /\ disk' = [disk EXCEPT ![slot][file] = how]
    /\ saving' = [saving EXCEPT !.pc = "stopped", !.damages = @ + 1]
    /\ UNCHANGED <<loader, storageRest>>

\* ToolRegistry(storage_path): _load_registry starts on the directories
\* that hold a file
StartLoad ==
    /\ saving.pc \in {"idle", "stopped"}
    /\ loader.pc = "down"
    /\ loader' = [NoLoader EXCEPT
                    !.pc = "loading",
                    !.remaining = {slot \in SlotIds : disk[slot] # NoSlot}]
    /\ saving' = [saving EXCEPT !.pc = "stopped"]
    /\ UNCHANGED <<disk, storageRest>>

\* the body of the loop of _load_registry on one directory, with its
\* try/except: meta is the local variable the previous iterations left
load_slot(l, slot) ==
    LET metadata == slot.metadata
        artifact == slot.artifact
        meta == IF metadata.state = "ok" THEN metadata ELSE l.meta
        with_meta == IF metadata.state = "ok"
                     THEN [l EXCEPT !.meta = metadata,
                                    !.tools = (metadata.id :> metadata) @@ @]
                     ELSE l
    IN  IF metadata.state = "corrupt" THEN l
        ELSE IF artifact.state = "ok" /\ meta # NoFile
        THEN [with_meta EXCEPT !.artifacts = (meta.id :> artifact) @@ @]
        ELSE with_meta

LoadSlot(slot) ==
    /\ loader.pc = "loading"
    /\ slot \in loader.remaining
    /\ LET l == load_slot(loader, disk[slot]) IN
       loader' = [l EXCEPT
                    !.remaining = @ \ {slot},
                    !.pc = IF loader.remaining = {slot} THEN "done"
                           ELSE "loading"]
    /\ UNCHANGED <<disk, saving, storageRest>>

StorageNext ==
    \/ \E id \in SlotIds, op \in {"register", "update"} : SaveCall(id, op)
    \/ WriteMetadata
    \/ WriteArtifact
    \/ \E torn \in BOOLEAN : Crash(torn)
    \/ \E slot \in SlotIds, file \in {"metadata", "artifact"},
          how \in {NoFile, CorruptFile} : Damage(slot, file, how)
    \/ StartLoad
    \/ \E slot \in SlotIds : LoadSlot(slot)

StorageSpec == Init /\ [][StorageNext]_vars

\* C21: every mutation writes the metadata and artifact records of a slot
\* atomically relative to each other: wherever the process stops during
\* register, update_stats or deprecate, the slot holds both records of
\* the state before the call or both records of the state after it, never
\* a mix, a broken record, or a metadata record without its artifact.
C21_SlotWrittenAtomically ==
    saving.damages = 0
    => \A slot \in SlotIds :
          /\ (saving.pc # "idle" /\ slot = saving.id)
             => disk[slot] \in {saving.old, saving.new}
          /\ disk[slot].metadata.state = "ok"
             => disk[slot].artifact.state = "ok"

\* the slot parses: both records are there and readable
SlotParses(slot) ==
    /\ disk[slot].metadata.state = "ok"
    /\ disk[slot].artifact.state = "ok"

\* the slot fails to parse: corrupt or missing metadata, or corrupt
\* artifact
SlotFails(slot) ==
    \/ disk[slot].metadata.state \in {"corrupt", "missing"}
    \/ disk[slot].artifact.state = "corrupt"

\* C22: after the reload, in whatever order the slots were visited, a
\* slot that fails to parse has added no entry to the metadata index or
\* the artifact index and has changed no entry of another slot, and every
\* slot that parses is loaded with its own metadata and artifact.
C22_ReloadSkipsBadSlots ==
    loader.pc = "done"
    => \A slot \in SlotIds :
          /\ SlotParses(slot)
             => /\ slot \in DOMAIN loader.tools
                /\ slot \in DOMAIN loader.artifacts
                /\ loader.tools[slot] = disk[slot].metadata
                /\ loader.artifacts[slot] = disk[slot].artifact
          /\ SlotFails(slot)
             => /\ slot \notin DOMAIN loader.tools
                /\ slot \notin DOMAIN loader.artifacts

(***************************************************************************)
(* Further properties of the controller under Spec                         *)
(***************************************************************************)
\* the plan of the rule-based reactive planner for the attempt under way
ReactivePlan == react_plan(arg, relevant_history(episodic))

\* C32: in every attempt that plans, the controller takes the exploratory
\* (tot) plan exactly when the confidence of the reactive plan is below the
\* confidence threshold, and the reactive plan itself otherwise; with the
\* rule-based reactive planner the exploratory plan is taken exactly when
\* the relevant episodic history is empty
C32_TotIffLowConfidence ==
    [][pc = "plan" /\ arg # NonString =>
          /\ plan'.strategy \in {"tot", "react"}
          /\ plan'.strategy = "tot" <=>
                 ReactivePlan.confidence < confidence_threshold
          /\ plan'.strategy = "react" => plan' = ReactivePlan
          /\ plan'.strategy = "tot" => plan' = tot_plan(arg)
          /\ plan'.strategy = "tot" <=> relevant_history(episodic) = <<>>]_vars

\* a later attempt has planned with an episode in the history and kept the
\* reactive plan, after a first attempt that took the exploratory one
C32_Witness ==
    /\ pc \in {"execute", "design"}
    /\ retry_count > 0
    /\ Len(relevant_history(episodic)) > 0
    /\ plan.strategy = "react"
    /\ plan.confidence >= confidence_threshold

\* C33: when the synthesis pipeline returns a status other than READY the
\* controller records one feedback entry tool_creation_failed, makes no
\* Execute transition, holds no result and goes on to Verify, and from
\* there to the failed-verification branch: the attempt never reaches the
\* exception handler and returns no error response
C33_SynthesisFailureIsFeedback ==
    /\ [][pc = "design" /\ pc' # "except" /\ tool'.status # "READY" =>
             /\ pc' = "verify"
             /\ feedback' = Append(feedback, "tool_creation_failed")
             /\ result' = NoResult
             /\ selected_tool' = selected_tool
             /\ history' = Append(history, [from |-> DESIGN_TOOL,
                                            to |-> VALIDATE])
             /\ response' = response]_vars
    /\ [][pc = "verify" /\ current_state = VALIDATE =>
             /\ pc' = "bad"
             /\ history' = Append(history, [from |-> VALIDATE,
                                            to |-> VERIFY])
             /\ feedback' = feedback
             /\ response' = response]_vars
    /\ [][pc = "bad" /\ tool.status = "FAIL" =>
             /\ pc' = "retry"
             /\ CountOf("tool_creation_failed", feedback')
                    = CountOf("tool_creation_failed", feedback)
             /\ response'.status # "error"]_vars

\* a failed synthesis has been verified as a bad result: the feedback of
\* the attempt ends with tool_creation_failed, bad_result
C33_Witness ==
    /\ pc = "retry"
    /\ tool.status = "FAIL"
    /\ Len(feedback) >= 2
    /\ feedback[Len(feedback) - 1] = "tool_creation_failed"
    /\ feedback[Len(feedback)] = "bad_result"
    /\ history[Len(history) - 1] = [from |-> VALIDATE, to |-> VERIFY]

(***************************************************************************)
(* ReflexionSpec: ReflexionMemory.should_reflect called with feedback      *)
(* lists of every content                                                  *)
(***************************************************************************)
\* the categories of feedback entries: the three the controller writes,
\* the two others should_reflect and its test name, and an entry without
\* a category key
FeedbackCategories ==
    {"bad_result", "error", "execution_error", "tool_creation_failed",
     "success", "<no category>"}

FeedbackLists ==
    UNION {[1..n -> FeedbackCategories] : n \in 0..MaxFeedback}

\* should_reflect(feedback), lines 210-214
ShouldReflectCall(fb) ==
    /\ reflection' = [called |-> TRUE, feedback |-> fb,
                      ret |-> should_reflect(fb)]
    /\ UNCHANGED reflexionRest

ReflexionNext == \E fb \in FeedbackLists : ShouldReflectCall(fb)

ReflexionSpec == Init /\ [][ReflexionNext]_vars

\* C34: should_reflect(feedback) returns true iff the list has at least
\* one entry of category bad_result or error; it returns false for the
\* empty list and for a list that holds only other categories
C34_ShouldReflect ==
    reflection.called =>
        LET fb == reflection.feedback
            failures == CountOf("bad_result", fb) + CountOf("error", fb)
        IN /\ reflection.ret \in BOOLEAN
           /\ reflection.ret <=> failures > 0
           /\ fb = <<>> => ~reflection.ret
           /\ (\A i \in 1..Len(fb) :
                   fb[i] \in {"execution_error", "tool_creation_failed",
                              "success", "<no category>"})
                 => ~reflection.ret

\* a list with a bad_result entry among other entries was given, and the
\* answer was true
C34_Witness ==
    /\ reflection.called
    /\ reflection.ret
    /\ Len(reflection.feedback) = MaxFeedback
    /\ CountOf("bad_result", reflection.feedback) = 1
    /\ CountOf("error", reflection.feedback) = 0
    /\ CountOf("success", reflection.feedback) = 1

(***************************************************************************)
(* ContextSpec: the first request of a controller whose ContextManager     *)
(* was given episodes through add_episodic beforehand                      *)
(***************************************************************************)
\* ContextManager.add_episodic, lines 107-110, called by the owner
AddEpisodic ==
    /\ pc = "idle"
    /\ call_no = 0
    /\ Len(episodic) < MaxEpisodes
    /\ \E task \in Tasks \ {NonString} :
          episodic' = Append(episodic, [task |-> task, outcome |-> "success",
                                        count |-> 0])
    /\ UNCHANGED <<agentVars, episodes, tools, pc, depth, arg, tool, result,
                   response, ghostVars, chain_feedback, resp_depth>>
    /\ UNCHANGED <<regVars, unitVars>>

FirstCall == call_no = 0 /\ Call

ContextNext == AddEpisodic \/ Register \/ FirstCall \/ Step

ContextSpec == Init /\ [][ContextNext]_vars

IsPrefix(s, t) == Len(s) <= Len(t) /\ SubSeq(t, 1, Len(s)) = s

EntersLearn == history' # history /\ current_state' = LEARN

\* the last n entries of a log
LastEntries(log, n) ==
    [i \in 1..n |-> log[Len(log) - n + i]]

Degrades == response' # response /\ response'.status = "degraded"

\* C36: an attempt that fails verification without an exception always
\* enters Learn and always re-enters handle_request with retry_count
\* raised by one: at the retry decision should_reflect and can_retry() are
\* both true, so the degraded return after the retry decision is never
\* taken and every degraded response is written by the entry guard, with
\* retry_count >= max_retries
C36_DegradedOnlyAtEntryGuard ==
    /\ [](pc = "bad" => should_reflect(Append(feedback, "bad_result")))
    /\ [](pc = "retry" =>
             /\ can_retry
             /\ should_reflect(feedback)
             /\ current_state = LEARN)
    /\ [][/\ pc = "bad" => pc' = "retry" /\ current_state' = LEARN
          /\ pc = "retry" =>
                /\ pc' = "entry"
                /\ depth' = depth + 1
                /\ retry_count' = retry_count + 1
          /\ Degrades =>
                /\ pc = "entry"
                /\ retry_count >= max_retries
                /\ response'.feedback = feedback]_vars

\* the third failed attempt of a call chain has passed the retry decision
\* and the nested call has returned the degraded response of its entry
\* guard
C36_Witness ==
    /\ pc = "return"
    /\ response.status = "degraded"
    /\ resp_depth = max_retries + 1
    /\ retry_count = max_retries
    /\ CountOf("bad_result", feedback) = max_retries
    /\ LearnCount = max_retries

\* the to-states of a transition history, as _respond lists them
ToStates(h) == [i \in 1..Len(h) |-> h[i].to]

\* C38: the reset of a first attempt sets current_state to Idle and leaves
\* the transition history as it is, so the history of a controller only
\* grows from request to request, and the state_history of a success
\* response lists the whole history of the controller: the transitions of
\* the earlier requests followed by those of the request answered
C38_HistoryAcrossRequests ==
    /\ [][/\ IsPrefix(history, history')
          /\ (pc = "entry" /\ pc' = "start" /\ first_attempt) =>
                /\ current_state' = IDLE
                /\ history' = history]_vars
    /\ [](response.status = "success" =>
             /\ response.state_history = ToStates(history)
             /\ Len(response.state_history) > chain_start
             /\ SubSeq(response.state_history, 1, chain_start)
                    = ToStates(SubSeq(history, 1, chain_start))
             /\ response.state_history[chain_start + 1] = PLAN
             /\ call_no > 1 => chain_start > 0)

\* the second request of a controller was answered with success after a
\* reset, and its state_history begins with the transitions of the first
C38_Witness ==
    /\ call_no = 2
    /\ response.status = "success"
    /\ response.retries = 0
    /\ chain_start > 0
    /\ Len(response.state_history) > chain_start
    /\ response.state_history[1] = PLAN
    /\ response.state_history[chain_start] \in {RESPOND, ERROR}

(***************************************************************************)
(* Further properties of the registry under RegistrySpec                   *)
(***************************************************************************)
EntriesOf(tl, id) == {i \in 1..Len(tl) : tl[i].id = id}

Found(id, results) == \E i \in 1..Len(results) : results[i].tool_id = id

\* C37: register with a name and version whose id the registry already
\* holds replaces the entry: afterwards there is exactly one entry of that
\* id, it has the artifact of the call, usage_count 0, success_rate 1.0
\* and deprecated false, search finds it for every query it matches, and
\* the entries of the other ids are as before
C37_RegisterReplaces ==
    [][\A id \in RegIds :
          (IsRegister(id) /\ EntriesOf(tools, id) # {}) =>
             /\ Len(tools') = Len(tools)
             /\ Cardinality(EntriesOf(tools', id)) = 1
             /\ get(tools', id).code = ret'.md.code
             /\ get(tools', id).usage_count = 0
             /\ get(tools', id).success_rate = RateOne
             /\ ~get(tools', id).deprecated
             /\ get(tools', id).deprecation_date = NoDate
             /\ \A q \in Queries :
                   search_score(LowerStr(q), get(tools', id)) > 0
                   => Found(id, search(q, tools', search_limit))
             /\ \A i \in 1..Len(tools) :
                   tools[i].id # id => tools'[i] = tools[i]]_vars

\* a deprecated id was registered again with another artifact, beside an
\* entry of another id
C37_Witness ==
    /\ ret.op = "register"
    /\ ret.entry # NoEntry
    /\ ret.entry.deprecated
    /\ ret.entry.code # ret.md.code
    /\ Len(tools) = 2
    /\ ~get(tools, ret.id).deprecated

(***************************************************************************)
(* BreakerSpec: calls made through one CircuitBreaker (utils/retry.py),    *)
(* one at a time, while time passes                                        *)
(***************************************************************************)
\* a breaker that lets every call through
should_attempt_reset_always(b) == TRUE

\* _should_attempt_reset, lines 71-76
should_attempt_reset(b) ==
    IF b.last_failure_time = NoTime THEN TRUE
    ELSE b.now - b.last_failure_time >= recovery_timeout

\* _on_success, lines 78-81
on_success(b) == [b EXCEPT !.failure_count = 0, !.state = "closed"]

\* _on_failure, lines 83-90
on_failure(b) ==
    [b EXCEPT !.failure_count = @ + 1,
              !.last_failure_time = b.now,
              !.state = IF b.failure_count + 1 >= failure_threshold
                        THEN "open" ELSE @]

\* time.time() advances
BreakerTick ==
    /\ breaker.now < MaxTime
    /\ breaker' = [breaker EXCEPT !.now = @ + 1]
    /\ UNCHANGED breakerRest

\* call(func), lines 55-61: an open breaker raises or becomes half_open
BreakerCall ==
    /\ breaker.pc = "idle"
    /\ breaker.calls < MaxBreakerCalls
    /\ breaker' =
          IF breaker.state = "open" /\ ~should_attempt_reset(breaker)
          THEN [breaker EXCEPT !.calls = @ + 1, !.last = "raised open"]
          ELSE [breaker EXCEPT !.calls = @ + 1, !.pc = "invoking",
                               !.last = "none",
                               !.state = IF @ = "open"
                                         THEN "half_open" ELSE @]
    /\ UNCHANGED breakerRest

\* lines 63-66: func returns
FunctionReturns ==
    /\ breaker.pc = "invoking"
    /\ breaker' = [on_success(breaker) EXCEPT !.pc = "idle",
                                              !.last = "returned"]
    /\ UNCHANGED breakerRest

\* lines 63-64, 67-69: func raises an exception of expected_exception
FunctionRaises ==
    /\ breaker.pc = "invoking"
    /\ breaker' = [on_failure(breaker) EXCEPT !.pc = "idle",
                                              !.last = "raised expected"]
    /\ UNCHANGED breakerRest

\* lines 63-64: func raises another exception, which no clause catches
FunctionRaisesOther ==
    /\ breaker.pc = "invoking"
    /\ breaker' = [breaker EXCEPT !.pc = "idle", !.last = "raised other"]
    /\ UNCHANGED breakerRest

BreakerNext ==
    \/ BreakerTick \/ BreakerCall \/ FunctionReturns \/ FunctionRaises
    \/ FunctionRaisesOther

BreakerSpec == Init /\ [][BreakerNext]_vars

Elapsed == breaker.now - breaker.last_failure_time

\* C39: the breaker opens exactly by an expected failure that brings
\* failure_count to failure_threshold or beyond, and failure_count counts
\* the expected failures since the last success, which sets it to 0 and
\* closes the breaker; a call on an open breaker raises without invoking
\* the function while less than recovery_timeout has passed since the last
\* failure, and otherwise makes the breaker half_open and invokes the
\* function, whose return closes the breaker and whose expected failure
\* opens it again
C39_BreakerStates ==
    /\ [](/\ breaker.state \in {"closed", "open", "half_open"}
          /\ breaker.state = "closed" <=>
                 breaker.failure_count < failure_threshold
          /\ breaker.state = "open" =>
                 breaker.pc = "idle" /\ breaker.last_failure_time # NoTime)
    /\ [][/\ (breaker'.state = "open" /\ breaker.state # "open") <=>
                 /\ breaker'.last = "raised expected"
                 /\ breaker.pc = "invoking"
                 /\ breaker.failure_count + 1 >= failure_threshold
          /\ (breaker.pc = "invoking" /\ breaker'.last = "raised expected") =>
                 /\ breaker'.failure_count = breaker.failure_count + 1
                 /\ breaker'.last_failure_time = breaker.now
          /\ (breaker.pc = "invoking" /\ breaker'.last = "returned") =>
                 breaker'.failure_count = 0 /\ breaker'.state = "closed"
          /\ (breaker.state = "open" /\ breaker'.calls # breaker.calls) =>
                 IF Elapsed < recovery_timeout
                 THEN /\ breaker'.pc = "idle"
                      /\ breaker'.last = "raised open"
                      /\ breaker'.state = "open"
                      /\ breaker'.failure_count = breaker.failure_count
                 ELSE /\ breaker'.pc = "invoking"
                      /\ breaker'.state = "half_open"
          /\ (breaker.state = "half_open" /\ breaker'.pc = "idle"
                /\ breaker.pc = "invoking") =>
                 \/ breaker'.last = "returned" /\ breaker'.state = "closed"
                 \/ breaker'.last = "raised expected"
                      /\ breaker'.state = "open"
                 \/ breaker'.last = "raised other"
                      /\ breaker'.state = "half_open"
          /\ breaker'.pc = "invoking" =>
                 breaker'.state # "open"]_vars

\* a breaker that was opened, refused a call, was tried again after the
\* recovery time and was opened again by the failure of that call
C39_Witness ==
    /\ breaker.state = "open"
    /\ breaker.last = "raised expected"
    /\ breaker.failure_count = failure_threshold + 1
    /\ breaker.calls = failure_threshold + 2
    /\ breaker.last_failure_time >= recovery_timeout

(***************************************************************************)
(* RetrySpec: calls of one function wrapped by with_retry (utils/retry.py) *)
(* under policies of 1 to MaxAttempts attempts                             *)
(***************************************************************************)
Min(a, b) == IF a < b THEN a ELSE b

\* RetryPolicy.get_delay, lines 23-35, in quarters of a second: jitter is
\* the value random.uniform gives, as a number of quarters of the delay
get_delay(attempt, jitter) ==
    LET delay == Min(initial_delay * exponential_base ^ attempt, max_delay)
        jittered == 4 * delay + jitter * delay
    IN IF jittered < 0 THEN 0 ELSE jittered

Jitters == {-1, 0, 1}

\* a wrapper that waits after every failure
last_attempt_never(r) == FALSE

\* line 122, negated
last_attempt(r) == ~(r.attempt < r.max_attempts - 1)

\* wrapper(*args), lines 113-116, under a policy of m attempts
RetryCall(m) ==
    /\ retrying.pc \in {"idle", "returned", "raised"}
    /\ retrying.calls < MaxRetryCalls
    /\ retrying' = [NoRetrying EXCEPT !.pc = "attempt", !.max_attempts = m,
                                      !.calls = retrying.calls + 1]
    /\ UNCHANGED retryRest

\* lines 117-118: func returns
AttemptReturns ==
    /\ retrying.pc = "attempt"
    /\ retrying' = [retrying EXCEPT !.invocations = @ + 1,
                                    !.returned = retrying.invocations + 1,
                                    !.pc = "returned"]
    /\ UNCHANGED retryRest

\* lines 117-132: func raises an exception of retry_on; the wrapper
\* sleeps before another attempt, and leaves the loop after the last
AttemptRaises(jitter) ==
    /\ retrying.pc = "attempt"
    /\ LET e == [kind |-> "retry_on",
                 invocation |-> retrying.invocations + 1] IN
       retrying' =
          IF last_attempt(retrying)
          THEN [retrying EXCEPT !.invocations = @ + 1,
                                !.last_exception = e,
                                !.pc = "exhausted"]
          ELSE [retrying EXCEPT !.invocations = @ + 1,
                                !.last_exception = e,
                                !.delays = Append(@, get_delay(retrying.attempt,
                                                               jitter)),
                                !.pc = "sleeping"]
    /\ UNCHANGED retryRest

\* line 128 returns: the next round of the loop
WakeUp ==
    /\ retrying.pc = "sleeping"
    /\ retrying' = [retrying EXCEPT !.attempt = @ + 1,
                                    !.pc = IF retrying.attempt + 1
                                              < retrying.max_attempts
                                           THEN "attempt" ELSE "exhausted"]
    /\ UNCHANGED retryRest

\* line 135
RaiseLast ==
    /\ retrying.pc = "exhausted"
    /\ retrying' = [retrying EXCEPT !.raised = retrying.last_exception,
                                    !.pc = "raised"]
    /\ UNCHANGED retryRest

\* lines 117-119: func raises an exception that is not of retry_on
AttemptRaisesOther ==
    /\ retrying.pc = "attempt"
    /\ retrying' = [retrying EXCEPT
                       !.invocations = @ + 1,
                       !.raised = [kind |-> "other",
                                   invocation |-> retrying.invocations + 1],
                       !.pc = "raised"]
    /\ UNCHANGED retryRest

RetryNext ==
    \/ \E m \in 1..MaxAttempts : RetryCall(m)
    \/ AttemptReturns
    \/ \E jitter \in Jitters : AttemptRaises(jitter)
    \/ WakeUp
    \/ RaiseLast
    \/ AttemptRaisesOther

RetrySpec == Init /\ [][RetryNext]_vars

\* the bounds of the delay slept after the failure of attempt k (from 0)
DelayInRange(d, k) ==
    LET delay == Min(initial_delay * exponential_base ^ k, max_delay)
    IN 3 * delay <= d /\ d <= 5 * delay

\* C40: a function wrapped by with_retry with max_attempts >= 1 is invoked
\* at most max_attempts times; the wrapper returns the result of the first
\* invocation that succeeds and invokes no more, sleeps a backoff delay
\* after each failed invocation that is followed by another and not after
\* the last, raises the exception of the last invocation when max_attempts
\* invocations have failed with a retry_on exception, and raises another
\* exception at once, without a further invocation
C40_BoundedRetry ==
    /\ [](retrying.pc # "idle" =>
            /\ retrying.max_attempts >= 1
            /\ retrying.invocations <= retrying.max_attempts
            /\ Len(retrying.delays) <= retrying.max_attempts - 1
            /\ \A k \in 1..Len(retrying.delays) :
                  DelayInRange(retrying.delays[k], k - 1)
            /\ retrying.pc \in {"attempt", "sleeping"} =>
                  retrying.invocations < retrying.max_attempts
            /\ retrying.pc = "attempt" =>
                  Len(retrying.delays) = retrying.invocations
            /\ retrying.pc = "returned" =>
                  /\ retrying.returned = retrying.invocations
                  /\ Len(retrying.delays) = retrying.invocations - 1
                  /\ retrying.raised = NoException
            /\ retrying.pc = "raised" =>
                  /\ retrying.returned = 0
                  /\ retrying.raised.invocation = retrying.invocations
                  /\ Len(retrying.delays) = retrying.invocations - 1
                  /\ retrying.raised.kind = "retry_on" =>
                        retrying.invocations = retrying.max_attempts)
    /\ [][/\ retrying.pc \in {"returned", "raised"} =>
                \/ retrying' = retrying
                \/ retrying'.calls = retrying.calls + 1
          /\ retrying'.invocations > retrying.invocations =>
                /\ retrying.pc = "attempt"
                /\ retrying'.invocations = retrying.invocations + 1
          /\ (retrying.pc = "attempt" /\ retrying'.raised.kind = "other") =>
                retrying'.pc = "raised"]_vars

\* all attempts of a policy of MaxAttempts attempts have failed and the
\* wrapper has raised the exception of the last one, after a sleep between
\* the attempts
C40_Witness ==
    /\ retrying.pc = "raised"
    /\ retrying.max_attempts = MaxAttempts
    /\ retrying.invocations = MaxAttempts
    /\ retrying.raised = [kind |-> "retry_on", invocation |-> MaxAttempts]
    /\ Len(retrying.delays) = MaxAttempts - 1
    /\ retrying.delays[1] < retrying.delays[2]

(***************************************************************************)
(* HandlerSpec: the request surface (api.py).  create_app builds one       *)
(* AgentController and submit_request, a plain function that the server   *)
(* runs in its thread pool, calls agent.handle_request: two handler        *)
(* threads work on the one AgentState.  The variables pc, depth, arg,      *)
(* tool, result and response are the frame of the running thread and       *)
(* parked is the frame of the other; a thread switch, taken here only      *)
(* where the running thread waits, exchanges them.                         *)
(***************************************************************************)
\* the tasks of the requests: AgentRequest.task is a string
RequestTasks == {<<"A", " ">>, <<"b">>}

\* submit_request, lines 81-90: the running thread takes a request
SubmitRequest ==
    /\ pc = "idle"
    /\ call_no < Cardinality(Handlers)
    /\ \E task \in RequestTasks : arg' = task
    /\ pc' = "entry"
    /\ depth' = 1
    /\ call_no' = call_no + 1
    /\ chain_start' = Len(history)
    /\ chain_feedback' = <<>>
    /\ last_exec' = NoResult
    /\ tool' = NoTool
    /\ result' = NoResult
    /\ response' = NoResponse
    /\ resp_depth' = 0
    /\ UNCHANGED <<agentVars, memVars, tools>>
    /\ UNCHANGED <<regVars, unitVars>>

\* the points where a handler thread waits and another runs: the planning
\* and the synthesis (the remote model), the sandboxed process, and the
\* end of the request
Suspended == pc \in {"idle", "plan", "design", "execute"}

\* the running thread waits and the other runs: a thread that waits
\* inside a request gives way to a free thread, and a thread that has
\* answered its request to the thread that waits
Switch ==
    /\ Suspended
    /\ (pc = "idle") # (parked.pc = "idle")
    /\ parked' = [id |-> CHOOSE h \in Handlers : h # parked.id,
                  pc |-> pc, depth |-> depth, arg |-> arg, tool |-> tool,
                  result |-> result, response |-> response,
                  chain_start |-> chain_start,
                  chain_feedback |-> chain_feedback,
                  last_exec |-> last_exec, resp_depth |-> resp_depth]
    /\ pc' = parked.pc
    /\ depth' = parked.depth
    /\ arg' = parked.arg
    /\ tool' = parked.tool
    /\ result' = parked.result
    /\ response' = parked.response
    /\ chain_start' = parked.chain_start
    /\ chain_feedback' = parked.chain_feedback
    /\ last_exec' = parked.last_exec
    /\ resp_depth' = parked.resp_depth
    /\ UNCHANGED <<agentVars, memVars, tools, call_no, regVars>>
    /\ UNCHANGED <<pipelineVars, reflection, breaker, retrying>>

HandlerNext ==
    \/ SubmitRequest \/ Switch
    \/ Entry \/ StartPlan \/ DesignTool \/ CreateTool \/ ExecuteTool
    \/ ExecuteToolRaises \/ Verify \/ Respond \/ BadResult \/ RetryDecision
    \/ HandleException \/ Return

HandlerSpec == Init /\ [][HandlerNext]_vars

\* the running thread is inside an attempt: after line 57, before a
\* response
InAttempt ==
    pc \in {"plan", "design", "execute", "verify", "respond", "bad", "retry"}

\* C31: the agent state is never shared across concurrent requests: while
\* a request is inside an attempt the state holds that request and the
\* feedback entries of its own call chain as the last entries, the
\* retry_count it entered the attempt with allows a retry, and a success
\* response names the tool its own attempt selected
C31_StateNotShared ==
    /\ InAttempt =>
          /\ request = arg
          /\ retry_count < max_retries
          /\ Len(chain_feedback) <= Len(feedback)
          /\ SubSeq(feedback, Len(feedback) - Len(chain_feedback) + 1,
                    Len(feedback)) = chain_feedback
    /\ (pc = "return" /\ response.status = "success") =>
          response.tool_used = tool.tool_id

====
